---- MODULE Spec2Model ----
(***************************************************************************)
(* The resumable stage pipeline of backend/main.py (send_message_stream),  *)
(* its JSON conversation store (backend/storage.py) and the bidding stage  *)
(* (backend/council.py, stage0_collect_quotes).                            *)
(*                                                                         *)
(* One conversation file is modelled.  Every request is one "invocation"   *)
(* with its own locals; an action is the code an invocation runs between   *)
(* two suspension points (a yield of the event generator or an await of a  *)
(* stage function).  The storage functions are synchronous, so each of     *)
(* them is atomic inside the action that calls it.                         *)
(*                                                                         *)
(* Not carried: the conversation title (generate_conversation_title,       *)
(* update_conversation_title), the text of prompts and answers, and the    *)
(* non-streaming endpoint send_message, whose run_full_council raises at   *)
(* council.py:1340 before any assistant message is stored.                 *)
(***************************************************************************)
EXTENDS Integers, Sequences, FiniteSets, TLC

\* ------------------------------------------------------------------ bounds
MaxInvocations == 2

Invocations == 1..MaxInvocations
Queries == {"q1", "q2"}

\* ------------------------------------------------------------ python values
\* Every python value the controller stores or passes is a record with a
\* field kind; None is python's None (JSON null).
None == [kind |-> "None"]
\* the outcome of a call that raises
Raise == [kind |-> "Raise"]

CHAIRMAN_MODEL == "google/gemini-3-pro-preview"

\* What fetch_top_models can return: [] on any failure, else a list of
\* distinct models with their prices in $ per million tokens.
FetchResults ==
    { <<>>, << [id |-> "openai/a", prompt |-> 5, completion |-> 10] >> }

ModelIds == {"openai/a"}

\* What query_model returns for a bid request: None (failure or timeout) or
\* a text, carried as the list of its digit runs (re.findall(r'\d+', text)).
Text(numbers) == [kind |-> "text", numbers |-> numbers]
BidReplies == {None, Text(<<1000>>)}

\* _parse_token_count, on the digit runs of the cleaned text
parse_token_count(text) ==
    IF text.numbers = <<>> THEN 1500
    ELSE LET token_count == text.numbers[1] IN
         IF 50 <= token_count /\ token_count <= 16000 THEN token_count
         ELSE IF token_count < 50 THEN 500
         ELSE 8000

\* The text of a reply as the sequence of its characters.
IsDigit(c) == c \in {"0", "1", "2", "3", "4", "5", "6", "7", "8", "9"}
DigitValue(c) ==
    CASE c = "0" -> 0 [] c = "1" -> 1 [] c = "2" -> 2 [] c = "3" -> 3
      [] c = "4" -> 4 [] c = "5" -> 5 [] c = "6" -> 6 [] c = "7" -> 7
      [] c = "8" -> 8 [] c = "9" -> 9

\* str.strip(): leading and trailing whitespace removed
RECURSIVE StripLeft(_)
StripLeft(chars) ==
    IF chars # <<>> /\ Head(chars) = " " THEN StripLeft(Tail(chars)) ELSE chars
RECURSIVE StripRight(_)
StripRight(chars) ==
    IF chars # <<>> /\ chars[Len(chars)] = " "
    THEN StripRight(SubSeq(chars, 1, Len(chars) - 1))
    ELSE chars
Strip(chars) == StripRight(StripLeft(chars))

\* str.replace(old, ''): the occurrences of old, found from the left and
\* not overlapping, are removed in one pass
RECURSIVE Replace(_, _)
Replace(chars, old) ==
    IF Len(chars) < Len(old) THEN chars
    ELSE IF SubSeq(chars, 1, Len(old)) = old
         THEN Replace(SubSeq(chars, Len(old) + 1, Len(chars)), old)
         ELSE <<Head(chars)>> \o Replace(Tail(chars), old)

\* text.strip().replace(',', '').replace('tokens', '').replace('token', '')
Cleaned_KeepsCommas(chars) ==
    Replace(Replace(Strip(chars), <<"t", "o", "k", "e", "n", "s">>),
            <<"t", "o", "k", "e", "n">>)

Cleaned(chars) ==
    Replace(Replace(Replace(Strip(chars), <<",">>),
                    <<"t", "o", "k", "e", "n", "s">>),
            <<"t", "o", "k", "e", "n">>)

\* int(run) of a digit run.  python's int is unbounded; the value is exact
\* below Huge and is Huge from there on, where the parser only uses
\* token_count > 16000.
Huge == 100000
RECURSIVE IntOf(_, _)
IntOf(digits, acc) ==
    IF digits = <<>> THEN acc
    ELSE LET n == acc * 10 + DigitValue(Head(digits)) IN
         IntOf(Tail(digits), IF n < Huge THEN n ELSE Huge)

\* re.findall(r'\d+', text): the maximal digit runs from the left, each
\* converted by int as the parser converts numbers[0]
RECURSIVE DigitRuns(_, _)
DigitRuns(chars, run) ==
    IF chars = <<>>
    THEN IF run = <<>> THEN <<>> ELSE <<IntOf(run, 0)>>
    ELSE IF IsDigit(Head(chars))
         THEN DigitRuns(Tail(chars), Append(run, Head(chars)))
         ELSE (IF run = <<>> THEN <<>> ELSE <<IntOf(run, 0)>>)
              \o DigitRuns(Tail(chars), <<>>)

\* _parse_token_count on the characters of the text
TokenCount(chars) ==
    IF chars = <<>> THEN 1500
    ELSE parse_token_count(Text(DigitRuns(Cleaned(chars), <<>>)))

\* ------------------------------------------------------------ bidding stage
\* all_quotes.sort(key=estimated_cost): python's sort is stable
RECURSIVE InsertByCost(_, _)
InsertByCost(sorted, q) ==
    IF sorted = <<>> THEN <<q>>
    ELSE IF sorted[Len(sorted)].estimated_cost <= q.estimated_cost
         THEN Append(sorted, q)
         ELSE Append(InsertByCost(SubSeq(sorted, 1, Len(sorted) - 1), q),
                     sorted[Len(sorted)])

RECURSIVE SortByCost(_)
\* as SortByCost, without the sort of council.py:155
SortByCost_Unsorted(quotes) == quotes

SortByCost(quotes) ==
    IF quotes = <<>> THEN <<>>
    ELSE InsertByCost(SortByCost(SubSeq(quotes, 1, Len(quotes) - 1)),
                      quotes[Len(quotes)])

Min(a, b) == IF a <= b THEN a ELSE b

\* council.py:120-147: one quote per model that answered, in fetch order.
\* estimated_cost = (quoted_tokens / 1_000_000) * output_cost_per_million is
\* carried in millionths of a dollar: quoted_tokens * output_cost_per_million.
RECURSIVE CollectQuotes(_, _)
\* as CollectQuotes, without the skip of council.py:126-129
CollectQuotes_KeepsFailed(top_models_data, responses) ==
    IF top_models_data = <<>> THEN <<>>
    ELSE LET n == Len(top_models_data)
             model_info == top_models_data[n]
             response == responses[model_info.id]
             rest == CollectQuotes(SubSeq(top_models_data, 1, n - 1), responses)
             quoted_tokens == IF response = None THEN 1500
                              ELSE parse_token_count(response)
         IN Append(rest,
                   [model |-> model_info.id,
                    cost_per_million |-> model_info.prompt,
                    output_cost_per_million |-> model_info.completion,
                    quoted_tokens |-> quoted_tokens,
                    estimated_cost |-> quoted_tokens * model_info.completion,
                    raw_response |-> response,
                    selected |-> FALSE])

CollectQuotes(top_models_data, responses) ==
    IF top_models_data = <<>> THEN <<>>
    ELSE LET n == Len(top_models_data)
             model_info == top_models_data[n]
             response == responses[model_info.id]
             rest == CollectQuotes(SubSeq(top_models_data, 1, n - 1), responses)
         IN IF response = None THEN rest
            ELSE Append(rest,
                   [model |-> model_info.id,
                    cost_per_million |-> model_info.prompt,
                    output_cost_per_million |-> model_info.completion,
                    quoted_tokens |-> parse_token_count(response),
                    estimated_cost |->
                        parse_token_count(response) * model_info.completion,
                    raw_response |-> response,
                    selected |-> FALSE])

\* as SelectedModels, with a panel of two
SelectedModels_Two(all_quotes) ==
    [j \in 1..Min(2, Len(all_quotes)) |-> all_quotes[j].model]

\* council.py:156: the models of the first three quotes of the sorted list
SelectedModels(all_quotes) ==
    [j \in 1..Min(3, Len(all_quotes)) |-> all_quotes[j].model]

\* as ChairmanModel, always the configured chairman
ChairmanModel_Configured(selected_models) == CHAIRMAN_MODEL

\* council.py:159
ChairmanModel(selected_models) ==
    IF selected_models # <<>> THEN selected_models[1] ELSE CHAIRMAN_MODEL

\* council.py:162-164
MarkSelected(all_quotes, selected_models) ==
    [j \in 1..Len(all_quotes) |->
        [all_quotes[j] EXCEPT !.selected =
            \E s \in 1..Len(selected_models) :
                selected_models[s] = all_quotes[j].model]]

\* stage0_collect_quotes: returns the 3-tuple
\* (all_quotes, selected_models, chairman_model), or raises when no model
\* list could be fetched.
stage0_collect_quotes(top_models_data, responses) ==
    IF top_models_data = <<>> THEN Raise
    ELSE LET sorted == SortByCost(CollectQuotes(top_models_data, responses))
             selected_models == SelectedModels(sorted)
         IN [kind |-> "tuple",
             all_quotes |-> MarkSelected(sorted, selected_models),
             selected_models |-> selected_models,
             chairman_model |-> ChairmanModel(selected_models)]

\* ----------------------------------------------------- answer collection
\* stage1_collect_responses: raises when selected_models is None or empty,
\* else one answer per selected model that responded.
RECURSIVE CollectAnswers(_, _)
CollectAnswers(selected_models, answering) ==
    IF selected_models = <<>> THEN <<>>
    ELSE LET n == Len(selected_models)
             rest == CollectAnswers(SubSeq(selected_models, 1, n - 1), answering)
         IN IF selected_models[n] \in answering
            THEN Append(rest, [model |-> selected_models[n]])
            ELSE rest

\* max_tokens=None of query_model: no limit
NoMaxTokens == -1

\* council.py:245-280: one request per selected model; its max_tokens is the
\* model's entry of max_tokens_per_model when it has one
AnswerRequests(selected_models, max_tokens_per_model) ==
    {[stage |-> 1, model |-> selected_models[j],
      max_tokens |-> IF selected_models[j] \in DOMAIN max_tokens_per_model
                     THEN max_tokens_per_model[selected_models[j]]
                     ELSE NoMaxTokens] :
         j \in 1..Len(selected_models)}

stage1_collect_responses_KeepsFailed(selected_models, answering) ==
    IF selected_models = <<>> THEN Raise
    ELSE [kind |-> "list",
          results |-> [j \in 1..Len(selected_models) |->
                          [model |-> selected_models[j]]]]
stage1_collect_responses(selected_models, answering) ==
    IF selected_models = <<>> THEN Raise
    ELSE [kind |-> "list", results |-> CollectAnswers(selected_models, answering)]

\* ------------------------------------------------------------------ numbers
\* The values json.loads can give a score field, and the numbers the stages
\* compute from them.  A finite number is carried exactly, as the reduced
\* fraction n/d (the rounding of python's floats is not carried); nan is
\* the float json.loads makes of NaN, with which every comparison is false;
\* Str is any JSON value that is not a number (a string, null, a list), on
\* which arithmetic and comparison with a number raise TypeError; Missing
\* is a key the object does not have.
RECURSIVE Gcd(_, _)
Gcd(a, b) == IF b = 0 THEN a ELSE Gcd(b, a % b)
Abs(n) == IF n < 0 THEN -n ELSE n

\* the number n/d, d > 0
Rat(n, d) ==
    LET g == Gcd(Abs(n), d) IN [kind |-> "num", n |-> n \div g, d |-> d \div g]
Num(n) == Rat(n, 1)
NaN == [kind |-> "nan"]
Str == [kind |-> "str"]
Missing == [kind |-> "missing"]

IsNumber(v) == v.kind \in {"num", "nan"}
\* a < b
Less(a, b) ==
    /\ a.kind = "num" /\ b.kind = "num"
    /\ a.n * b.d < b.n * a.d
\* a + b, a * b, a / b (b not zero)
Plus(a, b) ==
    IF a.kind = "nan" \/ b.kind = "nan" THEN NaN
    ELSE LET g == Gcd(a.d, b.d)
         IN Rat(a.n * (b.d \div g) + b.n * (a.d \div g), a.d * (b.d \div g))
Times(a, b) ==
    IF a.kind = "nan" \/ b.kind = "nan" THEN NaN
    ELSE LET g1 == Gcd(Abs(a.n), b.d)
             g2 == Gcd(Abs(b.n), a.d)
         IN Rat((a.n \div g1) * (b.n \div g2), (a.d \div g2) * (b.d \div g1))
Over(a, b) ==
    IF a.kind = "nan" \/ b.kind = "nan" THEN NaN
    ELSE Times(a, IF b.n < 0 THEN Rat(-b.d, -b.n) ELSE Rat(b.d, b.n))
\* max(a, b) and min(a, b) of python: the first argument unless the second
\* is greater (smaller)
Max(a, b) == IF Less(a, b) THEN b ELSE a
MinOf(a, b) == IF Less(b, a) THEN b ELSE a

\* dict.get(key, default) on a dict carried as a function
Get(dict, key, default) == IF key \in DOMAIN dict THEN dict[key] ELSE default

\* -------------------------------------------------------------- aggregation
\* chairman_model=None of the stage functions
NoModel == ""
\* {}
EmptyDict == [m \in {} |-> None]

\* What query_model returns to the chairman's request of stage 2: None, or
\* a text.  AggregatorDict(mcc): one of the three decoding strategies
\* (council.py:396-449) gives an object with aggregated_answer, whose
\* MCC_LLM_i is mcc[i].  AggregatorText(mcc): none does, and the pattern of
\* council.py:481 finds the digits mcc[i] (Missing: no match).
AggregatorDict(mcc) == [kind |-> "dict", mcc |-> mcc]
AggregatorText(mcc) == [kind |-> "text", mcc |-> mcc]

\* council.py:456-459 and 479-483: parsed.get(mcc_key, 0), or the matched
\* digits else 0, for each answer in turn
RawScores(response, n) ==
    [i \in 1..n |-> IF response.mcc[i] = Missing THEN Num(0) ELSE response.mcc[i]]

\* sum(values) of python: 0 + values[1] + values[2] + ...
RECURSIVE Sum(_)
Sum(values) ==
    IF values = <<>> THEN Num(0)
    ELSE Plus(Sum(SubSeq(values, 1, Len(values) - 1)), values[Len(values)])

\* council.py:461-467 and 485-491: scores are scaled by 100.0 / mcc_sum
\* when mcc_sum > 100
Normalized(scores) ==
    LET mcc_sum == Sum(scores)
    IN IF Less(Num(100), mcc_sum)
       THEN LET normalization_factor == Over(Num(100), mcc_sum)
            IN [i \in 1..Len(scores) |-> Times(scores[i], normalization_factor)]
       ELSE scores

\* the dict {result['model']: values[i]} built over stage1_results
Models(entries) == {entries[i].model : i \in 1..Len(entries)}
ByModel(entries, values) ==
    [m \in Models(entries) |->
        values[CHOOSE i \in 1..Len(entries) : entries[i].model = m]]

\* the aggregated_answer of the dict: the fixed text of council.py:383 when
\* the call failed, else a text taken from the reply (council.py:453,
\* 494-506), whose content is not carried
ErrorAnswer == "Error: Unable to generate aggregated answer."
ReplyAnswer == "answer"

\* stage2_evaluate_mccs: the dict it returns; sum() raises TypeError on a
\* score that is not a number
stage2_evaluate_mccs(stage1_results, chairman_model, response) ==
    LET chairman == IF chairman_model = NoModel THEN CHAIRMAN_MODEL
                    ELSE chairman_model
        scores == RawScores(response, Len(stage1_results.results))
    IN IF response = None
       THEN [kind |-> "dict", model |-> chairman,
             aggregated_answer |-> ErrorAnswer, chairman_mccs |-> EmptyDict]
       ELSE IF \E i \in 1..Len(scores) : ~IsNumber(scores[i]) THEN Raise
       ELSE [kind |-> "dict", model |-> chairman,
             aggregated_answer |-> ReplyAnswer,
             chairman_mccs |-> ByModel(stage1_results.results, Normalized(scores))]

\* ---------------------------------------------------------- self-evaluation
\* What query_model returns to a self-evaluation request: None, or a text.
\* Json(v): json.loads gives an object whose "MCC" is v.  JsonOther:
\* json.loads gives a value that is not an object.  Wrapped(v): json.loads
\* fails and the pattern of council.py:654 finds an object that decodes,
\* with "MCC" v.  WrappedBad: the object found does not decode.
\* Digits(v): no object is found; the pattern of council.py:673 finds the
\* digits v (Missing: nothing).
Json(v) == [kind |-> "json", MCC |-> v]
JsonOther == [kind |-> "other"]
Wrapped(v) == [kind |-> "wrapped", MCC |-> v]
WrappedBad == [kind |-> "wrapped_bad"]
Digits(v) == [kind |-> "digits", MCC |-> v]

\* council.py:638-642: the floor is enforced by one comparison
EnforceFloor(self_mcc, chairman_mcc) ==
    IF Less(self_mcc, chairman_mcc) THEN chairman_mcc ELSE self_mcc

\* the entry appended for one model (council.py:621-704), or Raise:
\* parsed.get on a value that is not an object raises AttributeError and
\* the comparison with a value that is not a number raises TypeError;
\* neither is a JSONDecodeError, so only the inner try (council.py:652,
\* 697) catches them
SelfEvaluation(model, response, chairman_mccs) ==
    LET chairman_mcc == Get(chairman_mccs, model, Num(0))
        fallback == [model |-> model, chairman_initial_mcc |-> chairman_mcc,
                     self_mcc |-> chairman_mcc]
        claimed == IF response.MCC = Missing THEN chairman_mcc ELSE response.MCC
    IN IF response = None
       THEN [model |-> model, chairman_initial_mcc |-> Missing,
             self_mcc |-> chairman_mcc]
       ELSE IF response.kind = "other" THEN Raise
       ELSE IF response.kind = "wrapped_bad" THEN fallback
       ELSE IF ~IsNumber(claimed)
            THEN IF response.kind = "json" THEN Raise ELSE fallback
       ELSE [fallback EXCEPT !.self_mcc = EnforceFloor(claimed, chairman_mcc)]

\* stage3_llm_self_evaluation: one entry per answer of stage 1, in order,
\* or Raise; responses[model] is the reply to the request of that model
RECURSIVE SelfEvaluations(_, _, _)
SelfEvaluations(stage1_results, responses, chairman_mccs) ==
    IF stage1_results = <<>> THEN <<>>
    ELSE LET n == Len(stage1_results)
             model == stage1_results[n].model
         IN Append(SelfEvaluations(SubSeq(stage1_results, 1, n - 1),
                                   responses, chairman_mccs),
                   SelfEvaluation(model, responses[model], chairman_mccs))

stage3_llm_self_evaluation(stage1_results, stage2_chairman_eval, responses) ==
    LET results == SelfEvaluations(stage1_results.results, responses,
                                   stage2_chairman_eval.chairman_mccs)
    IN IF \E i \in 1..Len(results) : results[i] = Raise THEN Raise
       ELSE [kind |-> "list", results |-> results]

\* --------------------------------------------------------- counter decision
NEGOTIATION_PENALTY_T == Num(5)

\* What query_model returns to the chairman's request of stage 4: None, or
\* a text.  DecisionDict: json.loads gives an object whose decision_LLM_i
\* is decision[i] and whose communicated_to_LLM_i is communicated[i].
\* DecisionOther: json.loads gives a value that is not an object.
\* DecisionText: json.loads raises JSONDecodeError.
DecisionDict(decision, communicated) ==
    [kind |-> "dict", decision |-> decision, communicated |-> communicated]
DecisionOther == [kind |-> "other"]
DecisionText == [kind |-> "text"]

\* council.py:829-848: the chairman's call failed
FallbackInternal(chairman_mcc, self_mcc) ==
    IF Less(chairman_mcc, self_mcc)
    THEN Over(Plus(chairman_mcc, self_mcc), Num(2))
    ELSE Times(chairman_mcc, Rat(11, 10))

\* council.py:897-903: the reply does not decode
RuleDecision(chairman_mcc, self_mcc) ==
    Max(IF Less(chairman_mcc, self_mcc)
        THEN Plus(self_mcc, NEGOTIATION_PENALTY_T)
        ELSE Over(Plus(chairman_mcc, self_mcc), Num(2)),
        chairman_mcc)

\* council.py:871-877: parsed.get(decision_key, 0), raised to the floor
ParsedDecision(response, i, chairman_initial) ==
    LET decision == IF response.decision[i] = Missing THEN Num(0)
                    ELSE response.decision[i]
    IN IF Less(decision, chairman_initial) THEN chairman_initial ELSE decision

\* The decision and the communication for the i-th self-evaluation
Decision(response, i, chairman_mcc, self_mcc) ==
    IF response = None
    THEN Max(FallbackInternal(chairman_mcc, self_mcc), chairman_mcc)
    ELSE IF response.kind = "text" THEN RuleDecision(chairman_mcc, self_mcc)
    ELSE ParsedDecision(response, i, chairman_mcc)

Communication(response, i, chairman_mcc, self_mcc) ==
    IF response = None
    THEN Times(FallbackInternal(chairman_mcc, self_mcc), Rat(17, 20))
    ELSE IF response.kind = "text" THEN RuleDecision(chairman_mcc, self_mcc)
    ELSE IF response.communicated[i] = Missing
         THEN ParsedDecision(response, i, chairman_mcc)
    ELSE response.communicated[i]

\* stage4_chairman_final_decision: the dict it returns, or Raise: parsed.get
\* on a value that is not an object (AttributeError) and the comparison of
\* a decision that is not a number (TypeError) are not caught by the
\* except json.JSONDecodeError of council.py:888
stage4_chairman_final_decision(stage2_chairman_eval, stage3_self_evals, chairman_model, response) ==
    LET chairman == IF chairman_model = NoModel THEN CHAIRMAN_MODEL
                    ELSE chairman_model
        chairman_mccs == stage2_chairman_eval.chairman_mccs
        evals == stage3_self_evals.results
        decisions == [i \in 1..Len(evals) |->
            Decision(response, i, Get(chairman_mccs, evals[i].model, Num(0)),
                     evals[i].self_mcc)]
        communications == [i \in 1..Len(evals) |->
            Communication(response, i, Get(chairman_mccs, evals[i].model, Num(0)),
                          evals[i].self_mcc)]
    IN IF response # None /\ response.kind = "other" THEN Raise
       ELSE IF /\ response # None /\ response.kind = "dict"
               /\ \E i \in 1..Len(evals) :
                      response.decision[i] # Missing /\ ~IsNumber(response.decision[i])
            THEN Raise
       ELSE [kind |-> "dict", model |-> chairman,
             decisions |-> ByModel(evals, decisions),
             communications |-> ByModel(evals, communications)]

\* --------------------------------------------------------- final acceptance
\* What query_model returns to a final-acceptance request: None, or a text,
\* carried as the sequence of its words and of the numerals that the pattern
\* \d+\.?\d* matches, each numeral as the number float() makes of it.
Word == [kind |-> "word"]
FinalText(tokens) == [kind |-> "text", tokens |-> tokens]

\* council.py:1066: re.findall gives the numerals of the text, in order
RECURSIVE FindNumbers(_)
FindNumbers(tokens) ==
    IF tokens = <<>> THEN <<>>
    ELSE IF Head(tokens).kind = "num"
         THEN <<Head(tokens)>> \o FindNumbers(Tail(tokens))
    ELSE FindNumbers(Tail(tokens))

\* the self-evaluation of model: next(se for se in stage3_self_evals ...)
SelfMccOf(stage3_self_evals, model) ==
    LET evals == stage3_self_evals.results
        found == {i \in 1..Len(evals) : evals[i].model = model}
    IN IF found = {} THEN Num(0)
       ELSE evals[CHOOSE i \in found : \A j \in found : i <= j].self_mcc

\* council.py:1009, 1032-1035: int(communicated_mcc * 1.15),
\* int(self_mcc * 0.9), communicated_mcc / 100 and int(communicated_mcc) in
\* the prompt raise on a value that is not a finite number
PromptRaises(communicated_mcc, self_mcc) ==
    communicated_mcc.kind # "num" \/ self_mcc.kind # "num"

\* council.py:1069-1074: the number is clamped to [0,100], then capped by
\* the self-evaluation
Clamped(number, self_mcc) ==
    LET llm_final_decision == Max(Num(0), MinOf(Num(100), number))
    IN IF Less(self_mcc, llm_final_decision) THEN self_mcc
       ELSE llm_final_decision

FinalDecision_LastNumber(response, self_mcc) ==
    IF response = None THEN self_mcc
    ELSE LET numbers == FindNumbers(response.tokens)
         IN IF numbers = <<>> THEN self_mcc
            ELSE Clamped(numbers[Len(numbers)], self_mcc)
\* council.py:1046-1083: the final decision of one model
FinalDecision(response, self_mcc) ==
    IF response = None THEN self_mcc
    ELSE LET numbers == FindNumbers(response.tokens)
         IN IF numbers = <<>> THEN self_mcc
            ELSE Clamped(numbers[1], self_mcc)

\* next((q for q in stage0_quotes if q['model'] == model), None) and its
\* estimated_cost, 0 without one
QuotedCost(stage0_quotes, model) ==
    LET found == {j \in 1..Len(stage0_quotes) : stage0_quotes[j].model = model}
    IN IF found = {} THEN 0
       ELSE stage0_quotes[CHOOSE j \in found : \A k \in found : j <= k].estimated_cost

\* council.py:969: sum(q['estimated_cost'] for q in stage0_quotes)
RECURSIVE TotalCost(_)
TotalCost(stage0_quotes) ==
    IF stage0_quotes = <<>> THEN 0
    ELSE Head(stage0_quotes).estimated_cost + TotalCost(Tail(stage0_quotes))

\* council.py:953-969: the values that the prompt of model is written from,
\* besides the query and the answers
FinalPrompt(stage0_quotes, stage2_chairman_eval, stage3_self_evals, stage4_chairman_decision, model) ==
    LET chairman_mcc == Get(stage2_chairman_eval.chairman_mccs, model, Num(0))
    IN [chairman_mcc |-> chairman_mcc,
        communicated_mcc |->
            Get(stage4_chairman_decision.communications, model, chairman_mcc),
        self_mcc |-> SelfMccOf(stage3_self_evals, model),
        quoted_cost |-> QuotedCost(stage0_quotes, model),
        total_pot |-> TotalCost(stage0_quotes)]

\* council.py:948-1044: the requests of stage 5, one per answer, or Raise
\* when a prompt cannot be written
FinalRequests(stage0_quotes, stage1_results, stage2_chairman_eval, stage3_self_evals, stage4_chairman_decision) ==
    LET answers == stage1_results.results
        prompt(model) == FinalPrompt(stage0_quotes, stage2_chairman_eval,
                             stage3_self_evals, stage4_chairman_decision, model)
    IN IF \E i \in 1..Len(answers) :
             PromptRaises(prompt(answers[i].model).communicated_mcc,
                          prompt(answers[i].model).self_mcc)
       THEN Raise
       ELSE [kind |-> "set",
             requests |->
                 {[stage |-> 5, model |-> answers[i].model, max_tokens |-> 1000,
                   prompt |-> prompt(answers[i].model)] : i \in 1..Len(answers)}]

\* stage5_llm_final_acceptance: one entry per answer of stage 1, or Raise
stage5_llm_final_acceptance(stage0_quotes, stage1_results, stage2_chairman_eval, stage3_self_evals, stage4_chairman_decision, responses) ==
    LET answers == stage1_results.results
    IN IF FinalRequests(stage0_quotes, stage1_results, stage2_chairman_eval,
                        stage3_self_evals, stage4_chairman_decision) = Raise
       THEN Raise
       ELSE [kind |-> "list",
             results |-> [i \in 1..Len(answers) |->
                 [model |-> answers[i].model,
                  llm_final_decision |->
                      FinalDecision(responses[answers[i].model],
                                    SelfMccOf(stage3_self_evals, answers[i].model))]]]

\* ---------------------------------------------------------------- settlement
Minus(a, b) == Plus(a, Times(Num(-1), b))

\* sum(q["estimated_cost"] for q in stage0_quotes if q.get("selected"))
RECURSIVE SelectedCost(_)
SelectedCost_AllQuotes(stage0_quotes) == TotalCost(stage0_quotes)
SelectedCost(stage0_quotes) ==
    IF stage0_quotes = <<>> THEN 0
    ELSE LET n == Len(stage0_quotes)
         IN SelectedCost(SubSeq(stage0_quotes, 1, n - 1))
            + (IF stage0_quotes[n].selected THEN stage0_quotes[n].estimated_cost
               ELSE 0)

Penalty_None(llm_decision, chairman_decision) == Num(0)
Penalty_Reversed(llm_decision, chairman_decision) ==
    Times(Minus(chairman_decision, llm_decision), Rat(1, 5))
Penalty_TenPercent(llm_decision, chairman_decision) ==
    Times(Minus(llm_decision, chairman_decision), Rat(1, 10))
\* council.py:1150-1151, 1161-1162: difference * 0.2
Penalty(llm_decision, chairman_decision) ==
    Times(Minus(llm_decision, chairman_decision), Rat(1, 5))

Split_Decision(chairman_decision, llm_decision) == chairman_decision
\* council.py:1155, 1166: (chairman_decision + llm_decision) / 2
Split(chairman_decision, llm_decision) ==
    Over(Plus(chairman_decision, llm_decision), Num(2))

\* council.py:1137-1186: the payment entry of one final decision; amounts
\* in millionths of a dollar
Payment(stage0_quotes, stage3_self_evals, chairman_decisions, llm_final) ==
    LET model == llm_final.model
        llm_decision == llm_final.llm_final_decision
        chairman_decision == Get(chairman_decisions, model, Num(0))
        quote_sum == Num(SelectedCost(stage0_quotes))
        penalty == Penalty(llm_decision, chairman_decision)
        split == Split(chairman_decision, llm_decision)
        chairman_pays == IF Less(chairman_decision, llm_decision)
                         THEN Plus(llm_decision, penalty) ELSE split
        llm_receives == IF Less(chairman_decision, llm_decision)
                        THEN Minus(chairman_decision, penalty) ELSE split
        payment_amount == Times(Over(llm_receives, Num(100)), quote_sum)
    IN [model |-> model,
        quoted_cost |-> QuotedCost(stage0_quotes, model),
        self_eval_mcc |-> SelfMccOf(stage3_self_evals, model),
        chairman_decision_mcc |-> chairman_decision,
        llm_final_decision_mcc |-> llm_decision,
        chairman_pays_mcc |-> chairman_pays,
        llm_receives_mcc |-> llm_receives,
        payment_amount_usd |-> payment_amount,
        chairman_payment_usd |-> Times(Over(chairman_pays, Num(100)), quote_sum),
        profit_usd |-> Minus(payment_amount, Num(QuotedCost(stage0_quotes, model)))]

stage6_calculate_final_payments_Pooled(stage0_quotes, stage3_self_evals, stage4_chairman_decision, stage5_llm_finals) ==
    LET finals == stage5_llm_finals.results
        payments == [i \in 1..Len(finals) |->
            Payment(stage0_quotes, stage3_self_evals,
                    [m \in DOMAIN stage4_chairman_decision.decisions |->
                        stage4_chairman_decision.decisions[finals[1].model]],
                    finals[i])]
        total_chairman_pays_mcc ==
            Sum([i \in 1..Len(finals) |-> payments[i].chairman_pays_mcc])
        chairman_earnings_mcc == Minus(Num(100), total_chairman_pays_mcc)
    IN [kind |-> "dict",
        per_model_payments |-> ByModel(finals, payments),
        total_quote_sum |-> SelectedCost(stage0_quotes),
        total_chairman_pays_mcc |-> total_chairman_pays_mcc,
        total_paid_to_llms_mcc |->
            Sum([i \in 1..Len(finals) |-> payments[i].llm_receives_mcc]),
        chairman_earnings_mcc |-> chairman_earnings_mcc,
        chairman_earnings_usd |->
            Times(Over(chairman_earnings_mcc, Num(100)),
                  Num(SelectedCost(stage0_quotes)))]
\* stage6_calculate_final_payments: the dict it returns
stage6_calculate_final_payments(stage0_quotes, stage3_self_evals, stage4_chairman_decision, stage5_llm_finals) ==
    LET finals == stage5_llm_finals.results
        payments == [i \in 1..Len(finals) |->
            Payment(stage0_quotes, stage3_self_evals,
                    stage4_chairman_decision.decisions, finals[i])]
        total_chairman_pays_mcc ==
            Sum([i \in 1..Len(finals) |-> payments[i].chairman_pays_mcc])
        chairman_earnings_mcc == Minus(Num(100), total_chairman_pays_mcc)
    IN [kind |-> "dict",
        per_model_payments |-> ByModel(finals, payments),
        total_quote_sum |-> SelectedCost(stage0_quotes),
        total_chairman_pays_mcc |-> total_chairman_pays_mcc,
        total_paid_to_llms_mcc |->
            Sum([i \in 1..Len(finals) |-> payments[i].llm_receives_mcc]),
        chairman_earnings_mcc |-> chairman_earnings_mcc,
        chairman_earnings_usd |->
            Times(Over(chairman_earnings_mcc, Num(100)),
                  Num(SelectedCost(stage0_quotes)))]

\* ------------------------------------------------------------------ storage
\* json.dump followed by json.load: a tuple comes back as a list, every
\* other value the controller stores comes back equal.
JsonImage(data) ==
    IF data.kind = "tuple" THEN [data EXCEPT !.kind = "list"] ELSE data

NoStages == [s \in 1..7 |-> None]
UserMessage(content) == [role |-> "user", content |-> content, stage |-> NoStages]
\* the message get_or_create_in_progress_message and save_stage_output create
NewAssistantMessage == [role |-> "assistant", content |-> "", stage |-> NoStages]

LastIsAssistant(msgs) ==
    Len(msgs) > 0 /\ msgs[Len(msgs)].role = "assistant"

add_user_message(msgs, content) == Append(msgs, UserMessage(content))

\* get_or_create_in_progress_message: the conversation after the call
get_or_create_in_progress_message(msgs) ==
    IF LastIsAssistant(msgs) THEN msgs ELSE Append(msgs, NewAssistantMessage)

\* as save_stage_output, with the stage key off by one
save_stage_output_WrongKey(msgs, stage_num, data) ==
    LET target == get_or_create_in_progress_message(msgs)
    IN [target EXCEPT ![Len(target)].stage[stage_num + 2] = JsonImage(data)]

\* save_stage_output: backend stage n is stored under key stage(n+1) of the
\* last assistant message, which is created when the last message is not one
save_stage_output(msgs, stage_num, data) ==
    LET target == get_or_create_in_progress_message(msgs)
    IN [target EXCEPT ![Len(target)].stage[stage_num + 1] = JsonImage(data)]

\* --------------------------------------------------------------- controller
VARIABLES
    messages,       \* conversation["messages"] in the store
    status,         \* conversation["status"]
    current_stage,  \* conversation["current_stage"]; NoStage is JSON null
    inv,            \* the locals of each request to /message/stream
    willAnswer,     \* the agents that return an answer when asked for one
    bid,            \* one call of stage0_collect_quotes: its inputs and result
    council         \* one pass through the stage functions 1..6

vars == <<messages, status, current_stage, inv, willAnswer, bid, council>>

\* bid and council are used by the stage functions exercised on their own
Unused == [pc |-> "unused"]

NoStage == -1

StageStart(n) == [type |-> "stage_start", stage |-> n, data |-> None]
StageComplete(n, data) == [type |-> "stage_complete", stage |-> n, data |-> data]
ErrorEvent == [type |-> "error", stage |-> NoStage, data |-> None]
CompleteEvent == [type |-> "complete", stage |-> NoStage, data |-> None]

IdleInvocation ==
    [pc |-> "idle",
     content |-> "",                    \* request.content
     conversation |-> <<>>,             \* messages read at main.py:186
     user_content |-> "",
     in_progress_message |-> NoStages,  \* its keys stage1..stage7
     resume_from_stage |-> 0,
     k |-> 0,                           \* stage_idx of the re-emit loop
     n |-> 0,                           \* the stage being executed
     local |-> [j \in 0..6 |-> None],   \* stage0_quotes .. stage6_payments
     events |-> <<>>,                   \* the events yielded so far
     calls |-> <<>>,                    \* stage functions called, in order
     requests |-> {},                   \* requests sent to agents
     fetched |-> <<>>,                  \* the model list its stage 0 fetched
     responses |-> [m \in ModelIds |-> None],  \* the replies to its bid requests
     run |-> 0,                         \* index of the assistant message worked on
     exit_status |-> ""]                \* status stored by the terminal step

Init ==
    /\ messages = <<>>
    /\ status = "active"
    /\ current_stage = NoStage
    /\ inv = [i \in Invocations |-> IdleInvocation]
    /\ willAnswer \in SUBSET ModelIds
    /\ bid = Unused
    /\ council = Unused

\* main.py:200-211
IsIncomplete(msg) == \E s \in 1..7 : msg.stage[s] = None

Resuming(conversation) ==
    /\ LastIsAssistant(conversation)
    /\ IsIncomplete(conversation[Len(conversation)])

\* as OriginalQuery, with the content of the new request
OriginalQuery_NewContent(conversation, content) == content
\* main.py:208-211: the last user message before the last message, else the
\* request's own content
OriginalQuery(conversation, content) ==
    LET users == {j \in 1..(Len(conversation) - 1) : conversation[j].role = "user"}
    IN IF users = {} THEN content
       ELSE conversation[CHOOSE j \in users : \A h \in users : h <= j].content

\* main.py:218-228
FirstIncomplete(message) ==
    LET open == {idx \in 0..6 : message[idx + 1] = None}
    IN IF open = {} THEN 7 ELSE CHOOSE idx \in open : \A h \in open : idx <= h

\* main.py:269 and 1340-1342: {q['model']: q['quoted_tokens'] for q in
\* stage0_quotes}.  Iterating the 3-tuple of stage0_collect_quotes (or the
\* 3-element list it is read back as) yields a list, a list and a str;
\* subscripting any of them with 'model' raises TypeError.
ElementKinds(stage0_quotes) ==
    IF stage0_quotes.kind \in {"tuple", "list"}
    THEN <<"list", "list", "str">>
    ELSE <<>>

max_tokens_per_model(stage0_quotes) ==
    IF \A j \in DOMAIN ElementKinds(stage0_quotes) :
           ElementKinds(stage0_quotes)[j] = "dict"
    THEN [kind |-> "dict"]
    ELSE Raise

\* main.py:279
NoAnswers(stage1_results) ==
    \/ stage1_results = None
    \/ stage1_results.kind = "list" /\ stage1_results.results = <<>>

\* The code from the guard of stage n (with the statements that precede it)
\* to the next yield: main.py:261-333.
RECURSIVE NextPoint(_, _, _)
NextPoint(n, resume_from_stage, local) ==
    IF n = 7 THEN [kind |-> "finish", n |-> 7]
    ELSE IF n = 1 /\ max_tokens_per_model(local[0]) = Raise
         THEN [kind |-> "raise", n |-> 1]
    ELSE IF n = 2 /\ NoAnswers(local[1])
         THEN [kind |-> "empty", n |-> 2]
    ELSE IF resume_from_stage <= n
         THEN [kind |-> "start", n |-> n]
    ELSE NextPoint(n + 1, resume_from_stage, local)

\* main.py:335-340 (and 280-282): status error, one error event, the end
Failed(rec) ==
    [rec EXCEPT !.pc = "done",
                !.events = Append(@, ErrorEvent),
                !.exit_status = "error"]

\* main.py:329-333
Finished(rec) ==
    [rec EXCEPT !.pc = "done",
                !.events = Append(@, CompleteEvent),
                !.exit_status = "completed"]

\* as Started, without the yield of the stage-start event
Started_NoEvent(rec, n) ==
    [rec EXCEPT !.pc = "started", !.n = n]

\* main.py:263, 273, 286, ...: the stage-start event of stage n
Started(rec, n) ==
    [rec EXCEPT !.pc = "started", !.n = n,
                !.events = Append(@, StageStart(n))]

\* as RunFrom, without the update of main.py:337 when the code raises
RunFrom_NoErrorStatus(i, rec, n, st, cs) ==
    LET point == NextPoint(n, rec.resume_from_stage, rec.local)
    IN /\ inv' = [inv EXCEPT ![i] =
                    IF point.kind = "start" THEN Started(rec, point.n)
                    ELSE IF point.kind = "finish" THEN Finished(rec)
                    ELSE Failed(rec)]
       /\ status' = IF point.kind \in {"start", "raise"} THEN st
                    ELSE IF point.kind = "finish" THEN "completed"
                    ELSE "error"
       /\ current_stage' = IF point.kind \in {"start", "raise"} THEN cs
                           ELSE NoStage
\* Run invocation i, whose locals are rec, from the guard of stage n to its
\* next yield; st and cs are the status and stage index stored so far.
RunFrom(i, rec, n, st, cs) ==
    LET point == NextPoint(n, rec.resume_from_stage, rec.local)
    IN /\ inv' = [inv EXCEPT ![i] =
                    IF point.kind = "start" THEN Started(rec, point.n)
                    ELSE IF point.kind = "finish" THEN Finished(rec)
                    ELSE Failed(rec)]
       /\ status' = IF point.kind = "start" THEN st
                    ELSE IF point.kind = "finish" THEN "completed"
                    ELSE "error"
       /\ current_stage' = IF point.kind = "start" THEN cs ELSE NoStage

\* main.py:238-260: status processing at the resume point, saved data loaded
Proceed(i, rec) ==
    LET loaded == [rec EXCEPT !.local =
                     [j \in 0..6 |-> IF j <= 5 THEN rec.in_progress_message[j + 1]
                                     ELSE None]]
    IN RunFrom(i, loaded, 0, "processing", rec.resume_from_stage)

\* send_message_stream, main.py:185-191: the conversation is read when the
\* request arrives; the generator starts later.  Requests are numbered in
\* their order of arrival.
Handler(i, content) ==
    /\ inv[i].pc = "idle"
    /\ \A h \in Invocations : h < i => inv[h].pc # "idle"
    /\ inv' = [inv EXCEPT ![i].pc = "accepted",
                          ![i].content = content,
                          ![i].conversation = messages]
    /\ UNCHANGED <<messages, status, current_stage, willAnswer, bid, council>>

\* event_generator, main.py:194-236 (to its first yield)
Begin(i) ==
    /\ inv[i].pc = "accepted"
    /\ LET conversation == inv[i].conversation
           resuming == Resuming(conversation)
           user_content ==
               IF resuming THEN OriginalQuery(conversation, inv[i].content)
               ELSE inv[i].content
           stored == IF resuming THEN messages
                     ELSE get_or_create_in_progress_message(
                              add_user_message(messages, user_content))
           in_progress_message ==
               IF resuming THEN conversation[Len(conversation)].stage
               ELSE stored[Len(stored)].stage
           rec == [inv[i] EXCEPT
                     !.user_content = user_content,
                     !.in_progress_message = in_progress_message,
                     !.resume_from_stage = FirstIncomplete(in_progress_message),
                     !.run = IF resuming THEN Len(conversation) ELSE Len(stored)]
       IN /\ messages' = stored
          /\ IF rec.resume_from_stage > 0
             THEN /\ inv' = [inv EXCEPT ![i] =
                       [rec EXCEPT !.pc = "reemit", !.k = 1,
                                   !.events = Append(@,
                                       StageComplete(0, in_progress_message[1]))]]
                  /\ UNCHANGED <<status, current_stage>>
             ELSE Proceed(i, rec)
    /\ UNCHANGED <<willAnswer, bid, council>>

\* main.py:232-260: the next stored stage is re-emitted, or the loop is over
ReEmit(i) ==
    /\ inv[i].pc = "reemit"
    /\ IF inv[i].k < inv[i].resume_from_stage
       THEN /\ inv' = [inv EXCEPT
                  ![i].k = @ + 1,
                  ![i].events = Append(@,
                      StageComplete(inv[i].k,
                                    inv[i].in_progress_message[inv[i].k + 1]))]
            /\ UNCHANGED <<status, current_stage>>
       ELSE Proceed(i, inv[i])
    /\ UNCHANGED <<messages, willAnswer, bid, council>>

\* The value the controller's call of stage n returns.  main.py:274 passes
\* no selected_models; stages 2, 3, 5 and 6 subscript the elements of
\* stage0_quotes (council.py:319, 537, 960, 1132); the controller reads
\* nothing else of what stages 2..6 return.
StageResult(n, local, top_models_data, responses) ==
    IF n = 0 THEN stage0_collect_quotes(top_models_data, responses)
    ELSE IF n = 1 THEN stage1_collect_responses(<<>>, willAnswer)
    ELSE IF n \in {2, 3, 5, 6} /\ max_tokens_per_model(local[0]) = Raise
         THEN Raise
    ELSE [kind |-> IF n \in {3, 5} THEN "list" ELSE "dict", stage |-> n]

\* The requests the call of stage n sends to agents: a bid request to every
\* fetched model (council.py:104-107); an answer request to every selected
\* model, with its bid as max_tokens (council.py:245-280), of which
\* main.py:274 passes none; one request to the chairman in stages 2 and 4,
\* which is chairman_model or CHAIRMAN_MODEL (council.py:374, 824) and
\* main.py:287, 303 pass no chairman_model.  Stage 2 raises at
\* council.py:319, before its request, when stage0_quotes is not a list of
\* quotes.
AgentRequests(n, top_models_data, selected_models) ==
    IF n = 0
    THEN {[stage |-> 0, model |-> top_models_data[j].id, max_tokens |-> 200] :
              j \in 1..Len(top_models_data)}
    ELSE IF n = 1
    THEN AnswerRequests(selected_models, <<>>)
    ELSE IF n = 4
    THEN {[stage |-> 4, model |-> CHAIRMAN_MODEL, max_tokens |-> 8192]}
    ELSE {}

\* as StageCall, with the stage-complete event yielded before the output is
\* saved
StageCall_EmitFirst(i) ==
    /\ inv[i].pc = "started"
    /\ \E top_models_data \in FetchResults, responses \in [ModelIds -> BidReplies] :
         LET n == inv[i].n
             result == StageResult(n, inv[i].local, top_models_data, responses)
             called == [inv[i] EXCEPT
                          !.calls = Append(@, n),
                          !.requests = @ \cup AgentRequests(n, top_models_data, <<>>),
                          !.fetched = IF n = 0 THEN top_models_data ELSE @,
                          !.responses = IF n = 0 THEN responses ELSE @]
         IN IF result = Raise
            THEN /\ inv' = [inv EXCEPT ![i] = Failed(called)]
                 /\ status' = "error"
                 /\ current_stage' = NoStage
                 /\ UNCHANGED messages
            ELSE /\ inv' = [inv EXCEPT ![i] =
                       [called EXCEPT !.pc = "completed",
                                      !.local[n] = result,
                                      !.events = Append(@,
                                          StageComplete(n, JsonImage(result)))]]
                 /\ UNCHANGED <<messages, status, current_stage>>
    /\ UNCHANGED <<willAnswer, bid, council>>
\* main.py:264-266 (and the same three lines of every stage): the stage
\* function returns, its output is saved and the stage-complete event is
\* yielded; or it raises and the handler of main.py:335 runs
StageCall(i) ==
    /\ inv[i].pc = "started"
    /\ \E top_models_data \in FetchResults, responses \in [ModelIds -> BidReplies] :
         LET n == inv[i].n
             result == StageResult(n, inv[i].local, top_models_data, responses)
             called == [inv[i] EXCEPT
                          !.calls = Append(@, n),
                          !.requests = @ \cup AgentRequests(n, top_models_data, <<>>),
                          !.fetched = IF n = 0 THEN top_models_data ELSE @,
                          !.responses = IF n = 0 THEN responses ELSE @]
         IN IF result = Raise
            THEN /\ inv' = [inv EXCEPT ![i] = Failed(called)]
                 /\ status' = "error"
                 /\ current_stage' = NoStage
                 /\ UNCHANGED messages
            ELSE /\ inv' = [inv EXCEPT ![i] =
                       [called EXCEPT !.pc = "completed",
                                      !.local[n] = result,
                                      !.events = Append(@,
                                          StageComplete(n, JsonImage(result)))]]
                 /\ messages' = save_stage_output(messages, n, result)
                 /\ UNCHANGED <<status, current_stage>>
    /\ UNCHANGED <<willAnswer, bid, council>>

\* main.py:267-333: after the stage-complete event of stage n, the stage
\* index is advanced and the code runs to its next yield
AfterComplete(i) ==
    /\ inv[i].pc = "completed"
    /\ IF inv[i].n < 6
       THEN RunFrom(i, inv[i], inv[i].n + 1, "processing", inv[i].n + 1)
       ELSE RunFrom(i, inv[i], 7, status, current_stage)
    /\ UNCHANGED <<messages, willAnswer, bid, council>>

\* The client goes away or the process is stopped while the generator is
\* suspended: nothing more of the invocation runs
Interrupt(i) ==
    /\ inv[i].pc \in {"reemit", "started", "completed"}
    /\ inv' = [inv EXCEPT ![i].pc = "aborted"]
    /\ UNCHANGED <<messages, status, current_stage, willAnswer, bid, council>>

Next ==
    \/ \E i \in Invocations, content \in Queries : Handler(i, content)
    \/ \E i \in Invocations : Begin(i)
    \/ \E i \in Invocations : ReEmit(i)
    \/ \E i \in Invocations : StageCall(i)
    \/ \E i \in Invocations : AfterComplete(i)
    \/ \E i \in Invocations : Interrupt(i)

Spec == Init /\ [][Next]_vars

\* ------------------------------------------- the bidding stage on its own
\* One call of stage0_collect_quotes on a fetched model list and the replies
\* to its bid requests.
MaxCandidates == 4

CandidateIds == <<"openai/a", "anthropic/b", "google/c", "x-ai/d", "meta/e">>

\* prices in $ per million tokens, as fetch_top_models converts them
\* (openrouter.py:277-288): the same for every model, or differing
PriceTables ==
    { [j \in 1..Len(CandidateIds) |-> [prompt |-> 5, completion |-> 10]],
      [j \in 1..Len(CandidateIds) |->
          [prompt |-> j, completion |-> IF j % 2 = 0 THEN 20 ELSE 5 * j]] }

BidFetches ==
    { [j \in 1..n |-> [id |-> CandidateIds[j],
                       prompt |-> t[j].prompt,
                       completion |-> t[j].completion]] :
          n \in 0..MaxCandidates, t \in PriceTables }

BidTexts == {Text(<<1000>>), Text(<<2000>>), Text(<<3000>>), Text(<<5000>>)}

FetchedIds(top_models_data) ==
    {top_models_data[j].id : j \in 1..Len(top_models_data)}

\* responses = dict(zip(quote_requests.keys(), response_list)),
\* council.py:104-110; responses.get(model) is None for any other model
BidResponses(top_models_data) ==
    { r \in [{CandidateIds[j] : j \in 1..Len(CandidateIds)} -> BidTexts \cup {None}] :
          \A m \in DOMAIN r : m \notin FetchedIds(top_models_data) => r[m] = None }

BidInit ==
    /\ messages = <<>>
    /\ status = "active"
    /\ current_stage = NoStage
    /\ inv = [i \in Invocations |-> IdleInvocation]
    /\ willAnswer = {}
    /\ council = Unused
    /\ \E top_models_data \in BidFetches :
         \E responses \in BidResponses(top_models_data) :
            bid = [pc |-> "called",
                   top_models_data |-> top_models_data,
                   responses |-> responses,
                   result |-> None]

\* stage0_collect_quotes returns or raises
Stage0Return ==
    /\ bid.pc = "called"
    /\ bid' = [bid EXCEPT
                 !.pc = "returned",
                 !.result = stage0_collect_quotes(bid.top_models_data, bid.responses)]
    /\ UNCHANGED <<messages, status, current_stage, inv, willAnswer, council>>

BidNext == Stage0Return

BidSpec == BidInit /\ [][BidNext]_vars

\* -------------------------------------------- the bid parser on its own
\* One call of _parse_token_count on a reply text.  The texts are the
\* concatenations of at most MaxPieces pieces: numerals on both sides of
\* the limits 50 and 16000, a comma, a blank, the unit words and other
\* characters.
MaxPieces == 3

BidPieces ==
    { <<"0">>, <<"4", "9">>, <<"5", "0">>,
      <<"1", "6", "0", "0", "0">>, <<"1", "6", "0", "0", "1">>,
      <<",">>, <<" ">>, <<".">>, <<"x">>,
      <<"t", "o", "k", "e", "n">>, <<"t", "o", "k", "e", "n", "s">> }

RECURSIVE BidTextsOf(_)
BidTextsOf(n) ==
    IF n = 0 THEN {<<>>}
    ELSE BidTextsOf(n - 1)
         \cup {t \o piece : t \in BidTextsOf(n - 1), piece \in BidPieces}

ParseInit ==
    /\ messages = <<>>
    /\ status = "active"
    /\ current_stage = NoStage
    /\ inv = [i \in Invocations |-> IdleInvocation]
    /\ willAnswer = {}
    /\ council = Unused
    /\ \E text \in BidTextsOf(MaxPieces) :
         bid = [pc |-> "parsing", text |-> text, result |-> 0]

\* _parse_token_count returns
ParseReturn ==
    /\ bid.pc = "parsing"
    /\ bid' = [bid EXCEPT !.pc = "parsed", !.result = TokenCount(bid.text)]
    /\ UNCHANGED <<messages, status, current_stage, inv, willAnswer, council>>

ParseNext == ParseReturn

ParseSpec == ParseInit /\ [][ParseNext]_vars

\* ------------------------------------------ the stage functions in sequence
\* One pass through stages 1..6, each applied to what the stages before it
\* returned, as their signatures say: stage0_quotes is the list all_quotes,
\* selected_models and chairman_model are the other two values stage 0
\* returned.  council.last holds the replies to the requests of the stage
\* that returned last, council.failed the requests that returned None.
PanelCandidates ==
    << [id |-> "openai/a", prompt |-> 5, completion |-> 10],
       [id |-> "anthropic/b", prompt |-> 2, completion |-> 20] >>

PanelBids ==
    { [m \in ModelIds \cup FetchedIds(PanelCandidates) |->
          IF m = "openai/a" THEN Text(<<1000>>)
          ELSE IF m = "anthropic/b" THEN second ELSE None] :
        second \in {None, Text(<<2000>>)} }

\* the replies drawn for the request about (or to) the first answer, and
\* for the others
ScoresFirst == {Num(40), Num(160), Num(-50), NaN, Str, Missing}
ScoresRest == {Num(60), Num(90)}
AggregatorReplies(n) ==
    {None}
    \cup {AggregatorDict(mcc) : mcc \in
             {f \in [1..n -> ScoresFirst \cup ScoresRest] :
                 /\ f[1] \in ScoresFirst
                 /\ \A i \in 2..n : f[i] \in ScoresRest}}
    \cup {AggregatorText(mcc) : mcc \in
             {f \in [1..n -> {Num(70), Num(50), Missing}] :
                 /\ f[1] \in {Num(70), Missing}
                 /\ \A i \in 2..n : f[i] = Num(50)}}

ClaimsFirst ==
    {None, Json(Num(20)), Json(Num(-10)), Json(Num(150)), Json(NaN), Json(Str),
     Json(Missing), JsonOther, Wrapped(Num(20)), Wrapped(Str), WrappedBad,
     Digits(Num(70)), Digits(Missing)}
ClaimsRest == {None, Json(Num(80))}
\* one reply per answering model
RepliesTo(stage1_results, first, rest) ==
    {f \in [Models(stage1_results.results) -> first \cup rest] :
        \A i \in 1..Len(stage1_results.results) :
            f[stage1_results.results[i].model] \in IF i = 1 THEN first ELSE rest}

NoReplies == [kind |-> "none"]

CouncilInit ==
    /\ messages = <<>>
    /\ status = "active"
    /\ current_stage = NoStage
    /\ inv = [i \in Invocations |-> IdleInvocation]
    /\ willAnswer = {}
    /\ bid = Unused
    /\ \E responses \in PanelBids :
         council = [pc |-> 1,
                    outcome |-> "running",
                    stage0 |-> stage0_collect_quotes(PanelCandidates, responses),
                    stage |-> [n \in 1..6 |-> None],
                    last |-> NoReplies,
                    failed |-> {}]

\* the requests of stage n to the models of asked that returned None
FailedCalls(n, asked, responses) ==
    {[stage |-> n, model |-> m] : m \in {a \in asked : responses[a] = None}}

\* stage n returned result (or raised) on the replies responses
Returned(n, result, responses, failures) ==
    /\ council' = [council EXCEPT
                      !.pc = IF result = Raise THEN n ELSE n + 1,
                      !.outcome = IF result = Raise THEN "raised"
                                  ELSE IF n = 6 THEN "returned" ELSE "running",
                      !.stage[n] = result,
                      !.last = responses,
                      !.failed = @ \cup failures]
    /\ UNCHANGED <<messages, status, current_stage, inv, willAnswer, bid>>

\* stage1_collect_responses returns; an empty list ends the run
\* (council.py:1348-1353, main.py:279-282)
Stage1Return ==
    /\ council.outcome = "running" /\ council.pc = 1
    /\ LET selected_models == council.stage0.selected_models
           panel == {selected_models[s] : s \in 1..Len(selected_models)}
       IN \E answering \in SUBSET panel :
            LET result == stage1_collect_responses(selected_models, answering)
            IN /\ council' = [council EXCEPT
                     !.pc = IF NoAnswers(result) THEN 1 ELSE 2,
                     !.outcome = IF NoAnswers(result) THEN "error" ELSE "running",
                     !.stage[1] = result,
                     !.last = [m \in panel |-> IF m \in answering THEN Text(<<>>)
                                               ELSE None],
                     !.failed = {[stage |-> 1, model |-> m] : m \in panel \ answering}]
               /\ UNCHANGED <<messages, status, current_stage, inv, willAnswer, bid>>

Stage2Return ==
    /\ council.outcome = "running" /\ council.pc = 2
    /\ \E response \in AggregatorReplies(Len(council.stage[1].results)) :
         Returned(2,
                  stage2_evaluate_mccs(council.stage[1], council.stage0.chairman_model,
                                       response),
                  response,
                  IF response = None
                  THEN {[stage |-> 2, model |-> council.stage0.chairman_model]}
                  ELSE {})

Stage3Return ==
    /\ council.outcome = "running" /\ council.pc = 3
    /\ \E responses \in RepliesTo(council.stage[1], ClaimsFirst, ClaimsRest) :
         Returned(3,
                  stage3_llm_self_evaluation(council.stage[1], council.stage[2],
                                             responses),
                  responses,
                  FailedCalls(3, DOMAIN responses, responses))

DecisionsFirst == {Num(10), Num(90), NaN, Str, Missing}
DecisionsRest == {Num(70)}
CommunicatedFirst == {Num(50), Num(500), Str, Missing}
CommunicatedRest == {Missing}
DecisionReplies(n) ==
    {None, DecisionOther, DecisionText}
    \cup {DecisionDict(decision, communicated) :
             decision \in {f \in [1..n -> DecisionsFirst \cup DecisionsRest] :
                              /\ f[1] \in DecisionsFirst
                              /\ \A i \in 2..n : f[i] \in DecisionsRest},
             communicated \in {f \in [1..n -> CommunicatedFirst \cup CommunicatedRest] :
                              /\ f[1] \in CommunicatedFirst
                              /\ \A i \in 2..n : f[i] \in CommunicatedRest}}

FinalsFirst ==
    {None, FinalText(<<Word, Num(30), Num(45)>>),
     FinalText(<<Num(120), Word, Num(30)>>), FinalText(<<Word>>)}
FinalsRest == {None, FinalText(<<Num(50)>>)}

Stage4Return ==
    /\ council.outcome = "running" /\ council.pc = 4
    /\ \E response \in DecisionReplies(Len(council.stage[3].results)) :
         Returned(4,
                  stage4_chairman_final_decision(council.stage[2], council.stage[3],
                      council.stage0.chairman_model, response),
                  response,
                  IF response = None
                  THEN {[stage |-> 4, model |-> council.stage0.chairman_model]}
                  ELSE {})

Stage5Return ==
    /\ council.outcome = "running" /\ council.pc = 5
    /\ \E responses \in RepliesTo(council.stage[1], FinalsFirst, FinalsRest) :
         LET result == stage5_llm_final_acceptance(council.stage0.all_quotes,
                           council.stage[1], council.stage[2], council.stage[3],
                           council.stage[4], responses)
         IN Returned(5, result,
                     IF result = Raise THEN NoReplies ELSE responses,
                     IF result = Raise THEN {}
                     ELSE FailedCalls(5, DOMAIN responses, responses))

Stage6Return ==
    /\ council.outcome = "running" /\ council.pc = 6
    /\ Returned(6,
                stage6_calculate_final_payments(council.stage0.all_quotes,
                    council.stage[3], council.stage[4], council.stage[5]),
                NoReplies, {})

CouncilNext ==
    \/ Stage1Return
    \/ Stage2Return
    \/ Stage3Return
    \/ Stage4Return
    \/ Stage5Return
    \/ Stage6Return

CouncilSpec == CouncilInit /\ [][CouncilNext]_vars

\* ------------------------------------------------ the settlement on its own
\* stage6_calculate_final_payments applied to outputs of stages 0..5: four
\* models bid, the three cheapest are the panel and all answer; the
\* aggregator's stage 2 call failed (no scores), every agent claims 100,
\* and each agent draws the internal decision the aggregator returns for it
\* and the number it replies as its final claim.
SettleCandidates ==
    << [id |-> "openai/a", prompt |-> 5, completion |-> 10],
       [id |-> "anthropic/b", prompt |-> 2, completion |-> 20],
       [id |-> "google/c", prompt |-> 3, completion |-> 15],
       [id |-> "x-ai/d", prompt |-> 4, completion |-> 40] >>

\* <<internal decision, final claim>>
SettlePairs ==
    {<<30, 45>>, <<30, 60>>, <<40, 30>>, <<40, 40>>, <<30, 30>>, <<10, 100>>,
     <<60, 0>>}

\* the state before the settlement in which the i-th agent has pairs[i]
BeforeSettlement(pairs) ==
    LET stage0 == stage0_collect_quotes(SettleCandidates,
                      [m \in ModelIds \cup FetchedIds(SettleCandidates) |->
                          Text(<<1000>>)])
        panel == {stage0.selected_models[s] : s \in 1..Len(stage0.selected_models)}
        stage1 == stage1_collect_responses(stage0.selected_models, panel)
        stage2 == stage2_evaluate_mccs(stage1, stage0.chairman_model, None)
        stage3 == stage3_llm_self_evaluation(stage1, stage2,
                      [m \in panel |-> Json(Num(100))])
        stage4 == stage4_chairman_final_decision(stage2, stage3,
                      stage0.chairman_model,
                      DecisionDict([i \in 1..Len(pairs) |-> Num(pairs[i][1])],
                                   [i \in 1..Len(pairs) |-> Missing]))
        stage5 == stage5_llm_final_acceptance(stage0.all_quotes, stage1, stage2,
                      stage3, stage4,
                      [m \in panel |->
                          FinalText(<<Num(pairs[CHOOSE i \in 1..Len(pairs) :
                              stage1.results[i].model = m][2])>>)])
    IN [pc |-> 6,
        outcome |-> "running",
        stage0 |-> stage0,
        stage |-> <<stage1, stage2, stage3, stage4, stage5, None>>,
        last |-> NoReplies,
        failed |-> {[stage |-> 2, model |-> stage0.chairman_model]}]

SettleInit ==
    /\ messages = <<>>
    /\ status = "active"
    /\ current_stage = NoStage
    /\ inv = [i \in Invocations |-> IdleInvocation]
    /\ willAnswer = {}
    /\ bid = Unused
    /\ \E pairs \in [1..3 -> SettlePairs] : council = BeforeSettlement(pairs)

SettleNext == Stage6Return

SettleSpec == SettleInit /\ [][SettleNext]_vars

\* ------------------------------------------- the calls of a stage in flight
\* The stage functions 0, 1 and 2 as run_full_council chains them, with each
\* call to query_model in flight on its own.  asyncio.gather starts every
\* coroutine it is given and resumes the stage function once all of them
\* have returned, with their results in the order of the coroutines;
\* query_model returns None for any failure (openrouter.py:83-107).
GatherCandidates == SubSeq(SettleCandidates, 1, 3)
GatherModels == FetchedIds(GatherCandidates)
GatherStages == 0..2

NotCalled == [n \in GatherStages |-> [m \in GatherModels |-> "none"]]

\* the models the requests of stage n are built for, in the order of the
\* list given to asyncio.gather (council.py:64-107, 245-280, 373-376)
Requests(n) ==
    IF n = 0 THEN [j \in 1..Len(GatherCandidates) |-> GatherCandidates[j].id]
    ELSE IF n = 1 THEN council.stage0.selected_models
    ELSE <<council.stage0.chairman_model>>

\* what query_model can return to a call of stage n
Replies(n) ==
    IF n = 0 THEN {None, Text(<<1000>>)}
    ELSE IF n = 1 THEN {None, Text(<<>>)}
    ELSE {None,
          AggregatorDict([i \in 1..Len(council.stage[1].results) |-> Num(20)])}

\* as Gathered, with the results in the order the calls completed
Gathered_AsCompleted(requests, reply, completed) ==
    [j \in 1..Len(requests) |-> reply[completed[j]]]
\* response_list = await asyncio.gather(*[...]): the result of the j-th
\* coroutine at position j, whatever the order of completion
Gathered(requests, reply, completed) ==
    [j \in 1..Len(requests) |-> reply[requests[j]]]

\* dict(zip(quote_requests.keys(), response_list)), council.py:110 and 283;
\* None stands for responses.get(model) of a model that was not asked
Zipped(requests, response_list) ==
    [m \in GatherModels |->
        LET found == {j \in 1..Len(requests) : requests[j] = m}
        IN IF found = {} THEN None
           ELSE response_list[CHOOSE j \in found : \A k \in found : k <= j]]

GatherInit ==
    /\ messages = <<>>
    /\ status = "active"
    /\ current_stage = NoStage
    /\ inv = [i \in Invocations |-> IdleInvocation]
    /\ willAnswer = {}
    /\ bid = Unused
    /\ council = [pc |-> 0,
                  outcome |-> "running",
                  stage0 |-> None,
                  stage |-> [n \in 1..6 |-> None],
                  phase |-> NotCalled,
                  reply |-> [n \in GatherStages |-> [m \in GatherModels |-> None]],
                  completed |-> [n \in GatherStages |-> <<>>]]

\* stage function n is called and runs up to its await: every request is
\* built and every call is started.  stage1_collect_responses raises
\* before that when it is given no model (council.py:234-235).
Dispatch(n) ==
    /\ council.outcome = "running" /\ council.pc = n
    /\ council.phase[n] = NotCalled[n]
    /\ LET requests == Requests(n)
       IN IF requests = <<>>
          THEN council' = [council EXCEPT !.outcome = "raised", !.stage[n] = Raise]
          ELSE council' = [council EXCEPT
                   !.phase[n] = [m \in GatherModels |->
                                    IF \E j \in 1..Len(requests) : requests[j] = m
                                    THEN "in_flight" ELSE "none"]]
    /\ UNCHANGED <<messages, status, current_stage, inv, willAnswer, bid>>

\* one call of stage n returns a reply or fails
Complete(n, m) ==
    /\ council.phase[n][m] = "in_flight"
    /\ \E r \in Replies(n) :
         council' = [council EXCEPT
                        !.phase[n][m] = "done",
                        !.reply[n][m] = r,
                        !.completed[n] = Append(@, m)]
    /\ UNCHANGED <<messages, status, current_stage, inv, willAnswer, bid>>

\* the result of stage function n on the replies to its calls
GatherResult(n) ==
    LET requests == Requests(n)
        response_list == Gathered(requests, council.reply[n], council.completed[n])
        responses == Zipped(requests, response_list)
    IN IF n = 0 THEN stage0_collect_quotes(GatherCandidates, responses)
       ELSE IF n = 1
            THEN stage1_collect_responses(
                     requests, {m \in GatherModels : responses[m] # None})
       ELSE stage2_evaluate_mccs(council.stage[1], council.stage0.chairman_model,
                                 response_list[1])

\* the await of stage function n is over: every call has returned, and the
\* function returns its result to run_full_council, which calls the next
\* stage function (council.py:1337-1355); no answer ends the run
\* (council.py:1348-1353)
GatherReturn(n) ==
    /\ council.outcome = "running" /\ council.pc = n
    /\ Requests(n) # <<>>
    /\ \A j \in 1..Len(Requests(n)) : council.phase[n][Requests(n)[j]] = "done"
    /\ LET result == GatherResult(n)
       IN council' =
             IF n = 0 THEN [council EXCEPT !.stage0 = result, !.pc = 1]
             ELSE IF n = 1
                  THEN [council EXCEPT
                           !.stage[1] = result,
                           !.pc = IF NoAnswers(result) THEN 1 ELSE 2,
                           !.outcome = IF NoAnswers(result) THEN "error"
                                       ELSE "running"]
             ELSE [council EXCEPT !.stage[2] = result, !.pc = 3,
                                  !.outcome = "returned"]
    /\ UNCHANGED <<messages, status, current_stage, inv, willAnswer, bid>>

GatherNext ==
    \/ \E n \in GatherStages : Dispatch(n)
    \/ \E n \in GatherStages : \E m \in GatherModels : Complete(n, m)
    \/ \E n \in GatherStages : GatherReturn(n)

GatherSpec == GatherInit /\ [][GatherNext]_vars

\* ------------------------------------------------------------------ claims
Done(i) == inv[i].pc = "done"
Called(i, n) == \E c \in 1..Len(inv[i].calls) : inv[i].calls[c] = n
LastEvent(i) == inv[i].events[Len(inv[i].events)]
\* the stage payloads stored for the run invocation i works on
StoredRun(i) == messages[inv[i].run].stage

\* the bids invocation i holds: fetched by its own stage 0 or loaded
HasBid(i) ==
    /\ inv[i].local[0] # None
    /\ inv[i].local[0].all_quotes # <<>>
\* no candidate answered the bid requests of invocation i
NoResponders(i) ==
    /\ Called(i, 0)
    /\ \A j \in 1..Len(inv[i].fetched) :
           inv[i].responses[inv[i].fetched[j].id] = None
\* some panel member of invocation i answers when asked
PanelAnswers(i) ==
    /\ inv[i].local[0] # None
    /\ \E s \in 1..Len(inv[i].local[0].selected_models) :
           inv[i].local[0].selected_models[s] \in willAnswer

\* C1: an invocation that resumes a run with N stored stages (0 < N < 7)
\* emits the stage-complete events of stages 0..N-1 with the stored
\* payloads, calls none of their functions, leaves their payloads as they
\* were, and goes on at stage N.
C1_ResumeContinues ==
    \A i \in Invocations :
        (Done(i) /\ inv[i].resume_from_stage \in 1..6) =>
            LET r == inv[i].resume_from_stage IN
            /\ \A j \in 0..(r - 1) :
                   /\ Len(inv[i].events) > j
                   /\ inv[i].events[j + 1] =
                          StageComplete(j, inv[i].in_progress_message[j + 1])
                   /\ ~Called(i, j)
                   /\ StoredRun(i)[j + 1] = inv[i].in_progress_message[j + 1]
            /\ \E e \in 1..Len(inv[i].events) : inv[i].events[e] = StageStart(r)

\* C2: resume idempotence: a run that was interrupted and resumed ends with
\* a stored settlement, the same one an invocation that ran the same bids in
\* one pass leaves.
C2_ResumeIdempotence ==
    \A j \in Invocations :
        (Done(j) /\ inv[j].resume_from_stage > 0 /\ HasBid(j) /\ PanelAnswers(j)) =>
            /\ StoredRun(j)[7] # None
            /\ \A i \in Invocations :
                   (/\ Done(i)
                    /\ inv[i].resume_from_stage = 0
                    /\ JsonImage(inv[i].local[0]) = inv[j].local[0])
                   => StoredRun(i)[7] = StoredRun(j)[7]

\* C3: with at least one bid and at least one answering panel member, an
\* uninterrupted invocation ends with all seven payloads stored, status
\* completed and the complete event.
C3_RunCompletes ==
    \A i \in Invocations :
        (Done(i) /\ inv[i].resume_from_stage = 0 /\ HasBid(i) /\ PanelAnswers(i)) =>
            /\ inv[i].exit_status = "completed"
            /\ LastEvent(i) = CompleteEvent
            /\ \A s \in 1..7 : StoredRun(i)[s] # None

\* C4: an invocation ends in error only when no candidate bid or no panel
\* member answered.
C4_OnlyEmptyPanelFatal ==
    \A i \in Invocations :
        (Done(i) /\ inv[i].exit_status = "error") =>
            \/ ~HasBid(i)
            \/ Called(i, 1) /\ NoAnswers(inv[i].local[1])

\* C6: when no candidate responds in bidding the invocation ends in error
\* right after the bidding stage: the panel is empty, stage 1 is not called
\* and no answer request is sent.
C6_NoBidsFatal ==
    \A i \in Invocations :
        (Done(i) /\ NoResponders(i)) =>
            /\ inv[i].exit_status = "error"
            /\ LastEvent(i) = ErrorEvent
            /\ inv[i].local[0] # None => inv[i].local[0].selected_models = <<>>
            /\ ~HasBid(i)
            /\ ~Called(i, 1)
            /\ \A q \in inv[i].requests : q.stage # 1

C6_Witness ==
    \E i \in Invocations :
        /\ Done(i) /\ NoResponders(i)
        /\ inv[i].fetched # <<>>
        /\ inv[i].local[0] # None

\* C7: stage payloads are produced in order.  In every stored message a
\* non-null payload of stage n has non-null payloads of all stages below n,
\* and a stage function n > 0 is called only when the payload of stage n-1
\* is in the store.
PayloadsInOrder ==
    \A m \in 1..Len(messages) :
        \A n \in 1..6 :
            messages[m].stage[n + 1] # None =>
                \A j \in 0..(n - 1) : messages[m].stage[j + 1] # None

CallsAfterPersist ==
    \A i \in Invocations :
        Len(inv'[i].calls) > Len(inv[i].calls) =>
            LET n == inv'[i].calls[Len(inv'[i].calls)] IN
            n > 0 =>
                /\ LastIsAssistant(messages)
                /\ messages[Len(messages)].stage[n] # None

C7_StagesInOrder == [](PayloadsInOrder) /\ [][CallsAfterPersist]_vars

C7_Witness ==
    \E i \in Invocations :
        /\ Done(i) /\ Called(i, 0)
        /\ inv[i].run > 0
        /\ StoredRun(i)[1] # None
        /\ \A s \in 2..7 : StoredRun(i)[s] = None

\* C8: the events of an invocation are ordered.  Stage-complete events have
\* increasing stage indices; a stage executed by the invocation has its
\* stage-start before its stage-complete, and the stage-start of the next
\* stage comes after that stage-complete; an invocation that ended emitted
\* exactly one terminal event, as its last event; complete comes only after
\* the stage-complete of stage 6.
IsTerminal(e) == e.type \in {"error", "complete"}

EventsOrdered(i) ==
    LET ev == inv[i].events
        r == inv[i].resume_from_stage
    IN /\ \A a, b \in 1..Len(ev) :
              (a < b /\ ev[a].type = "stage_complete" /\ ev[b].type = "stage_complete")
                  => ev[a].stage < ev[b].stage
       /\ \A b \in 1..Len(ev) :
              (ev[b].type = "stage_complete" /\ ev[b].stage >= r) =>
                  \E a \in 1..(b - 1) : ev[a] = StageStart(ev[b].stage)
       /\ \A c \in 1..Len(ev) :
              (ev[c].type = "stage_start" /\ ev[c].stage > 0) =>
                  \E b \in 1..(c - 1) :
                      /\ ev[b].type = "stage_complete"
                      /\ ev[b].stage = ev[c].stage - 1
       /\ \A a \in 1..Len(ev) : IsTerminal(ev[a]) => a = Len(ev)
       /\ Done(i) <=> (ev # <<>> /\ IsTerminal(ev[Len(ev)]))
       /\ \A a \in 1..Len(ev) :
              ev[a] = CompleteEvent =>
                  \E b \in 1..(a - 1) :
                      ev[b].type = "stage_complete" /\ ev[b].stage = 6

C8_EventOrder == \A i \in Invocations : EventsOrdered(i)

C8_Witness ==
    \E i, j \in Invocations :
        /\ Done(i) /\ inv[i].resume_from_stage = 0 /\ Len(inv[i].events) = 3
        /\ Done(j) /\ inv[j].resume_from_stage = 1 /\ Len(inv[j].events) = 2

\* C9: a partial write of stage n leaves the status, the stage index, every
\* earlier message and the other payloads of the message as they were, and
\* the payload read back is exactly the one written.
C9_Step(i) ==
    LET n == inv[i].n
        before == get_or_create_in_progress_message(messages)
    IN /\ status' = status
       /\ current_stage' = current_stage
       /\ Len(messages') = Len(before)
       /\ \A m \in 1..(Len(before) - 1) : messages'[m] = before[m]
       /\ messages'[Len(before)].role = before[Len(before)].role
       /\ \A s \in 1..7 :
              s # n + 1 => messages'[Len(before)].stage[s] = before[Len(before)].stage[s]
       /\ messages'[Len(before)].stage[n + 1] = inv'[i].local[n]

C9_PartialWrite ==
    [][\A i \in Invocations :
          (inv[i].pc = "started" /\ inv'[i].pc = "completed") => C9_Step(i)]_vars

\* C10: a run has one writer: two invocations are never both at work on the
\* same run.
AtWork(i) == inv[i].pc \in {"reemit", "started", "completed"}

C10_SingleWriter ==
    \A i, j \in Invocations :
        (i # j /\ AtWork(i) /\ AtWork(j)) => inv[i].run # inv[j].run

\* the agents invocation i called in stage n
AgentsCalled(i, n) == {q.model : q \in {r \in inv[i].requests : r.stage = n}}

\* C11: the aggregator is fixed by bidding.  In an invocation that ended,
\* held bids and had an answering panel member, the agent called in stage 2
\* (aggregation) and in stage 4 (counter decision) is the chairman_model
\* that stage 0 put out, in first-pass and resumed invocations alike.
C11_AggregatorFixed ==
    \A i \in Invocations :
        (Done(i) /\ HasBid(i) /\ PanelAnswers(i)) =>
            /\ AgentsCalled(i, 2) = {inv[i].local[0].chairman_model}
            /\ AgentsCalled(i, 4) = {inv[i].local[0].chairman_model}

\* the bid of model m in the stage 0 output held by invocation i
BidOf(i, m) ==
    LET all_quotes == inv[i].local[0].all_quotes
        j == CHOOSE j \in 1..Len(all_quotes) : all_quotes[j].model = m
    IN all_quotes[j].quoted_tokens

\* C12: answer collection is invoked with the panel that bidding selected.
\* In an invocation that ended and held bids, the answer requests are
\* exactly one to each selected model, with that model's bid as max_tokens,
\* and none to any other agent.
C12_PanelAsked ==
    \A i \in Invocations :
        (Done(i) /\ HasBid(i)) =>
            LET selected_models == inv[i].local[0].selected_models IN
            {q \in inv[i].requests : q.stage = 1} =
                {[stage |-> 1, model |-> selected_models[s],
                  max_tokens |-> BidOf(i, selected_models[s])] :
                     s \in 1..Len(selected_models)}

\* ---- claims on the bidding stage, under BidSpec
BidReturned == bid.pc = "returned" /\ bid.result # Raise
\* the candidates that answered the bid request
Responders ==
    {m \in FetchedIds(bid.top_models_data) : bid.responses[m] # None}
QuoteIndices == 1..Len(bid.result.all_quotes)
Quote(j) == bid.result.all_quotes[j]
Panel == {bid.result.selected_models[s] : s \in 1..Len(bid.result.selected_models)}

\* C13: the bid list holds exactly the candidates that responded, each once;
\* the number of bids marked selected is min(3, number of responders); the
\* panel is the set of agents whose bid is marked selected.
C13_BidList ==
    BidReturned =>
        /\ {Quote(j).model : j \in QuoteIndices} = Responders
        /\ Len(bid.result.all_quotes) = Cardinality(Responders)
        /\ Cardinality({j \in QuoteIndices : Quote(j).selected})
               = Min(3, Cardinality(Responders))
        /\ Panel = {Quote(j).model : j \in {k \in QuoteIndices : Quote(k).selected}}
        /\ Len(bid.result.selected_models) = Cardinality(Panel)

C13_Witness ==
    /\ BidReturned
    /\ Len(bid.top_models_data) = 4
    /\ Cardinality(Responders) = 3
    /\ Cardinality(Panel) = 3

\* C14: estimated_cost is the agent's output rate times its bid (in
\* millionths of a dollar: $10 per million tokens and a bid of 1000 give
\* 10000, that is $0.01); the bids are sorted ascending by estimated_cost;
\* the first three are the selected ones, so no unselected bid is strictly
\* cheaper than a selected one.
C14_CheapestSelected ==
    BidReturned =>
        /\ \A j \in QuoteIndices :
               Quote(j).estimated_cost =
                   Quote(j).output_cost_per_million * Quote(j).quoted_tokens
        /\ \A j, k \in QuoteIndices :
               j < k => Quote(j).estimated_cost <= Quote(k).estimated_cost
        /\ \A j \in QuoteIndices : Quote(j).selected <=> j <= 3
        /\ \A j, k \in QuoteIndices :
               (Quote(j).selected /\ ~Quote(k).selected)
                   => Quote(j).estimated_cost <= Quote(k).estimated_cost

\* rates of $10 per million, bids 1000, 2000, 3000 and 5000 in some order
C14_Witness ==
    /\ BidReturned
    /\ Len(bid.result.all_quotes) = 4
    /\ \A j \in QuoteIndices : Quote(j).output_cost_per_million = 10
    /\ bid.responses[CandidateIds[1]] = Text(<<5000>>)
    /\ [j \in 1..4 |-> Quote(j).estimated_cost] = <<10000, 20000, 30000, 50000>>
    /\ [j \in 1..4 |-> Quote(j).selected] = <<TRUE, TRUE, TRUE, FALSE>>

\* C15: the aggregator put out is a selected bidder with the lowest
\* estimated_cost when the panel is not empty, and the configured
\* CHAIRMAN_MODEL exactly when no bidder was selected.
C15_AggregatorCheapest ==
    BidReturned =>
        /\ Panel # {} =>
              \E j \in QuoteIndices :
                  /\ Quote(j).model = bid.result.chairman_model
                  /\ Quote(j).selected
                  /\ bid.result.chairman_model \in Panel
                  /\ \A k \in QuoteIndices :
                         Quote(k).selected
                             => Quote(j).estimated_cost <= Quote(k).estimated_cost
        /\ Panel = {} <=> bid.result.chairman_model = CHAIRMAN_MODEL

\* the first fetched model is not the cheapest of three bidders
C15_Witness ==
    /\ BidReturned
    /\ Cardinality(Panel) = 3
    /\ bid.result.chairman_model # bid.top_models_data[1].id
    /\ Quote(1).estimated_cost < Quote(2).estimated_cost

\* ---- claims on the stage functions, under CouncilSpec
\* stage n returned an output
Ran(n) == council.stage[n] \notin {None, Raise}
\* stage n is the stage that returned last, on the replies council.last
JustRan(n) == council.outcome = "running" /\ council.pc = n + 1
\* the models whose request of stage n returned None
FailedIn(n) == {f.model : f \in {g \in council.failed : g.stage = n}}
\* the models with an entry in the output of stage n
OutputModels(n) ==
    CASE n = 1 -> Models(council.stage[1].results)
      [] n = 2 -> DOMAIN council.stage[2].chairman_mccs
      [] n = 3 -> Models(council.stage[3].results)
      [] n = 4 -> DOMAIN council.stage[4].decisions
                  \cup DOMAIN council.stage[4].communications
      [] n = 5 -> Models(council.stage[5].results)
      [] n = 6 -> DOMAIN council.stage[6].per_model_payments
\* the aggregator_initial score of model: chairman_mccs.get(model, 0)
Floor(model) == Get(council.stage[2].chairman_mccs, model, Num(0))
\* a >= b
AtLeast(a, b) == a.kind = "num" /\ b.kind = "num" /\ ~Less(a, b)
IsPercentage(v) == AtLeast(v, Num(0)) /\ AtLeast(Num(100), v)

\* C16, as stated: an agent whose call fails in answer collection, in
\* self-evaluation or in final acceptance has no entry in the output of that
\* stage nor of any later stage.
C16_FailedDropped ==
    \A n \in {1, 3, 5} : \A k \in n..6 :
        Ran(k) => FailedIn(n) \cap OutputModels(k) = {}

\* C16, amended: an agent whose answer-collection call fails has no entry in
\* the answers nor in the output of any later stage, and the answers are
\* those of the rest of the panel; every answering agent keeps its entry in
\* the self-evaluations, decisions, final claims and settlement, and one
\* whose self-evaluation call fails has the floor as its self claim, one
\* whose final-acceptance call fails its self claim as its final claim.
C16_AnswerFailureDrops ==
    LET selected_models == council.stage0.selected_models
        panel == {selected_models[s] : s \in 1..Len(selected_models)}
    IN /\ \A k \in 1..6 : Ran(k) => FailedIn(1) \cap OutputModels(k) = {}
       /\ Ran(1) => OutputModels(1) = panel \ FailedIn(1)
       /\ \A k \in 3..6 : Ran(k) => OutputModels(k) = OutputModels(1)
       /\ Ran(3) =>
            \A i \in 1..Len(council.stage[3].results) :
                LET entry == council.stage[3].results[i]
                IN entry.model \in FailedIn(3) =>
                       entry.self_mcc = Floor(entry.model)
       /\ Ran(5) =>
            \A i \in 1..Len(council.stage[5].results) :
                LET entry == council.stage[5].results[i]
                IN entry.model \in FailedIn(5) =>
                       entry.llm_final_decision =
                           SelfMccOf(council.stage[3], entry.model)

\* a run that reached the settlement after a failed call in answer
\* collection, in self-evaluation and in final acceptance
C16_Witness ==
    /\ council # Unused
    /\ council.outcome = "returned"
    /\ FailedIn(1) # {} /\ FailedIn(3) # {} /\ FailedIn(5) # {}

\* the scores stage 2 stored, in the order of the answers
StoredScores ==
    LET answers == council.stage[1].results
    IN [i \in 1..Len(answers) |->
           council.stage[2].chairman_mccs[answers[i].model]]

\* C17: when the aggregator replied and stage 2 stored scores, the stored
\* scores sum to at most 100; and when the scores of the reply sum to more
\* than 100, each stored score is the score of the reply times 100/sum and
\* the stored scores sum to exactly 100.
C17_SumAtMost100 ==
    (council # Unused /\ JustRan(2) /\ council.last # None) =>
        LET raw == RawScores(council.last, Len(council.stage[1].results))
            total == Sum(StoredScores)
        IN /\ AtLeast(Num(100), total)
           /\ Less(Num(100), Sum(raw)) =>
                /\ total = Num(100)
                /\ \A i \in 1..Len(raw) :
                       StoredScores[i] = Times(raw[i], Over(Num(100), Sum(raw)))

\* C18: every score in a stage output is a number in [0,100]: the
\* aggregator_initial scores, the self claims, the internal and the
\* communicated decisions, and the final claims.
C18_Percentages ==
    council # Unused =>
        /\ Ran(2) => \A m \in OutputModels(2) :
                         IsPercentage(council.stage[2].chairman_mccs[m])
        /\ Ran(3) => \A i \in 1..Len(council.stage[3].results) :
                         IsPercentage(council.stage[3].results[i].self_mcc)
        /\ Ran(4) => \A m \in OutputModels(4) :
                         /\ IsPercentage(council.stage[4].decisions[m])
                         /\ IsPercentage(council.stage[4].communications[m])
        /\ Ran(5) => \A i \in 1..Len(council.stage[5].results) :
                         IsPercentage(council.stage[5].results[i].llm_final_decision)

\* the replies the claim says give exactly the floor: a failed call, a
\* reply without a claim or with one that is not a number, a negative claim
YieldsFloor(reply) ==
    IF reply = None \/ reply.kind \in {"other", "wrapped_bad"} THEN TRUE
    ELSE \/ reply.MCC \in {Missing, Str}
         \/ Less(reply.MCC, Num(0))

\* C19: stage 3 returns an output on every reply, in which each self claim
\* is at least the agent's aggregator_initial score (0 without one), and is
\* exactly that score after a failed call and after a missing, unparseable
\* or negative claim.
C19_ClaimAtLeastFloor ==
    (council # Unused /\ Ran(2)) =>
        /\ council.stage[3] # Raise
        /\ JustRan(3) =>
             \A i \in 1..Len(council.stage[3].results) :
                 LET entry == council.stage[3].results[i]
                 IN /\ AtLeast(entry.self_mcc, Floor(entry.model))
                    /\ YieldsFloor(council.last[entry.model]) =>
                           entry.self_mcc = Floor(entry.model)

\* C20: each internal decision in the output of stage 4 is at least the
\* agent's aggregator_initial score (0 without one), whatever the
\* aggregator replied: a decoded object, no reply, or a text that does not
\* decode.
C20_DecisionAtLeastFloor ==
    (council # Unused /\ Ran(4)) =>
        \A m \in DOMAIN council.stage[4].decisions :
            AtLeast(council.stage[4].decisions[m], Floor(m))

\* the self claim of model in the output of stage 3
SelfClaim(model) == SelfMccOf(council.stage[3], model)
\* the fallback as the three claims word it: the internal decision of an
\* agent with the given aggregator_initial score and self claim
DocumentedInternal(initial, self_claim) ==
    IF Less(initial, self_claim)
    THEN Over(Plus(initial, self_claim), Num(2))
    ELSE Times(initial, Rat(11, 10))
\* every agent has the documented fallback in the output of stage 4
FallbackApplied ==
    \A m \in OutputModels(3) :
        /\ council.stage[4].decisions[m] =
               DocumentedInternal(Floor(m), SelfClaim(m))
        /\ council.stage[4].communications[m] =
               Times(council.stage[4].decisions[m], Rat(17, 20))

\* C21: when the aggregator's stage 4 call failed, each agent's internal
\* decision is (initial + self_claim)/2 if self_claim > initial and
\* initial x 1.1 otherwise, and its communicated decision is internal x 0.85.
C21_FailureFallback ==
    (council # Unused /\ JustRan(4) /\ council.last = None) => FallbackApplied

\* the internal decisions as the decoded reply of stage 4 gives them
RawDecisions ==
    [i \in 1..Len(council.last.decision) |->
        IF council.last.decision[i] = Missing THEN Num(0)
        ELSE council.last.decision[i]]

\* C22: when the reply of stage 4 decodes and its internal decisions sum to
\* more than 100, the values of the reply are not used: every agent gets
\* the fallback of C21.
C22_SumAbove100Fallback ==
    (/\ council # Unused /\ JustRan(4)
     /\ council.last.kind = "dict"
     /\ Less(Num(100), Sum(RawDecisions))) => FallbackApplied

\* C23: when the reply of stage 4 does not decode, every agent gets the
\* same fallback as on a failed call, that of C21.
C23_UndecodableFallback ==
    (council # Unused /\ JustRan(4) /\ council.last = DecisionText) =>
        FallbackApplied

\* C24: in the output of stage 5, every final claim is at least 0 and at
\* most the agent's self claim.
C24_FinalWithinSelf ==
    (council # Unused /\ Ran(5)) =>
        \A i \in 1..Len(council.stage[5].results) :
            LET entry == council.stage[5].results[i]
            IN /\ AtLeast(entry.llm_final_decision, Num(0))
               /\ AtLeast(SelfClaim(entry.model), entry.llm_final_decision)

\* the positions of the numerals of a reply text
NumeralsAt(tokens) == {j \in 1..Len(tokens) : tokens[j].kind = "num"}
\* the first numeral of a reply text that has one
FirstNumber(tokens) ==
    tokens[CHOOSE j \in NumeralsAt(tokens) : \A k \in NumeralsAt(tokens) : j <= k]
\* number brought into [0,100]
InPercent(number) ==
    IF Less(number, Num(0)) THEN Num(0)
    ELSE IF Less(Num(100), number) THEN Num(100) ELSE number

\* C25: in the output of stage 5, the final claim of an agent whose call
\* failed or whose reply has no numeral is its self claim; otherwise it is
\* made of the first numeral of the reply and of no later one: that numeral
\* brought into [0,100], or the self claim when that is smaller.
C25_FirstNumberParsed ==
    (council # Unused /\ JustRan(5)) =>
        \A i \in 1..Len(council.stage[5].results) :
            LET entry == council.stage[5].results[i]
                reply == council.last[entry.model]
                self_claim == SelfClaim(entry.model)
            IN IF reply = None THEN entry.llm_final_decision = self_claim
               ELSE IF NumeralsAt(reply.tokens) = {}
                    THEN entry.llm_final_decision = self_claim
               ELSE LET first == InPercent(FirstNumber(reply.tokens))
                    IN entry.llm_final_decision =
                           IF Less(self_claim, first) THEN self_claim ELSE first

\* stage 5 returned for two agents: one replied a text whose first numeral
\* is 30 and whose second is 45, with a self claim of 45 or more, and got
\* 30; the call of the other failed and it got its self claim
C25_Witness ==
    /\ council # Unused /\ JustRan(5)
    /\ \E i, j \in 1..Len(council.stage[5].results) :
          LET first == council.stage[5].results[i]
              other == council.stage[5].results[j]
          IN /\ council.last[first.model] = FinalText(<<Word, Num(30), Num(45)>>)
             /\ AtLeast(SelfClaim(first.model), Num(45))
             /\ first.llm_final_decision = Num(30)
             /\ council.last[other.model] = None
             /\ other.llm_final_decision = SelfClaim(other.model)

\* the request of stage 5 to model, given the output of stage 4
FinalRequestTo(model, stage4_chairman_decision) ==
    LET asked == FinalRequests(council.stage0.all_quotes, council.stage[1],
                               council.stage[2], council.stage[3],
                               stage4_chairman_decision)
    IN IF asked = Raise THEN {}
       ELSE {q \in asked.requests : q.model = model}

\* C26: the request of stage 5 to an agent does not depend on the internal
\* decision the aggregator returned for it.  When stage 4 returned on a
\* decoded reply, the reply that differs from it only in the internal
\* decision of one agent gives that agent the same stage 5 request.
C26_OnlyCommunicated ==
    (council # Unused /\ JustRan(4) /\ council.last.kind = "dict") =>
        \A i \in 1..Len(council.stage[3].results) :
            \A decision \in DecisionsFirst \cup DecisionsRest :
                LET model == council.stage[3].results[i].model
                    other == stage4_chairman_final_decision(
                                 council.stage[2], council.stage[3],
                                 council.stage0.chairman_model,
                                 [council.last EXCEPT !.decision[i] = decision])
                IN other # Raise =>
                       FinalRequestTo(model, other) =
                           FinalRequestTo(model, council.stage[4])

\* ---- claims on the settlement, under SettleSpec
Settled == council # Unused /\ council.outcome = "returned"
\* the internal decision D and the final claim F of model, and its payment
InternalDecision(model) == council.stage[4].decisions[model]
FinalClaim(model) ==
    LET finals == council.stage[5].results
    IN finals[CHOOSE i \in 1..Len(finals) : finals[i].model = model]
           .llm_final_decision
PaymentOf(model) == council.stage[6].per_model_payments[model]

C28_NoOverClaim ==
    Settled =>
        \A m \in OutputModels(5) :
            LET D == InternalDecision(m)
                F == FinalClaim(m)
            IN AtLeast(D, F) =>
                   /\ PaymentOf(m).llm_receives_mcc = Over(Plus(D, F), Num(2))
                   /\ PaymentOf(m).chairman_pays_mcc = PaymentOf(m).llm_receives_mcc
                   /\ F = D => PaymentOf(m).llm_receives_mcc = D

\* a settlement with an agent of D = 40 and F = 30, for which both amounts
\* are 35, and an agent of D = F = 40, which receives 40
C28_Witness ==
    /\ Settled
    /\ \E m, k \in OutputModels(5) :
          /\ InternalDecision(m) = Num(40) /\ FinalClaim(m) = Num(30)
          /\ PaymentOf(m).llm_receives_mcc = Num(35)
          /\ PaymentOf(m).chairman_pays_mcc = Num(35)
          /\ InternalDecision(k) = Num(40) /\ FinalClaim(k) = Num(40)
          /\ PaymentOf(k).llm_receives_mcc = Num(40)

\* the estimated_cost of the bid of model
CostOf(model) ==
    LET all_quotes == council.stage0.all_quotes
    IN all_quotes[CHOOSE j \in 1..Len(all_quotes) : all_quotes[j].model = model]
           .estimated_cost
\* the sum of the estimated_cost of the first n panel members
RECURSIVE PanelCost(_)
PanelCost(n) ==
    IF n = 0 THEN 0
    ELSE PanelCost(n - 1) + CostOf(council.stage0.selected_models[n])
\* the sum of what the aggregator pays for the first n final claims
RECURSIVE PaysUpTo(_)
PaysUpTo(n) ==
    IF n = 0 THEN Num(0)
    ELSE Plus(PaysUpTo(n - 1),
              PaymentOf(council.stage[5].results[n].model).chairman_pays_mcc)

\* C29: in the settlement, the total is the sum of estimated_cost over the
\* selected bids only; each agent's amount is its payout/100 x total and its
\* profit that amount less its own estimated_cost; the aggregator's
\* earnings are total x (100 - sum of what it pays)/100, negative exactly
\* when it pays more than 100 in all.
C29_Amounts ==
    Settled =>
        LET total == PanelCost(Len(council.stage0.selected_models))
            pays == PaysUpTo(Len(council.stage[5].results))
            earnings == council.stage[6].chairman_earnings_usd
        IN /\ council.stage[6].total_quote_sum = total
           /\ \A m \in OutputModels(5) :
                 /\ PaymentOf(m).payment_amount_usd =
                        Times(Over(PaymentOf(m).llm_receives_mcc, Num(100)),
                              Num(total))
                 /\ PaymentOf(m).profit_usd =
                        Minus(PaymentOf(m).payment_amount_usd, Num(CostOf(m)))
           /\ earnings = Over(Times(Num(total), Minus(Num(100), pays)), Num(100))
           /\ Less(earnings, Num(0)) <=> Less(Num(100), pays)

\* a settlement after a bid that was not selected, in which the aggregator
\* pays more than 100 and its earnings are negative
C29_Witness ==
    /\ Settled
    /\ \E j \in 1..Len(council.stage0.all_quotes) :
          ~council.stage0.all_quotes[j].selected
    /\ Less(Num(100), council.stage[6].total_chairman_pays_mcc)
    /\ Less(council.stage[6].chairman_earnings_usd, Num(0))

\* the settlement of the state before, with the decision and the final
\* claim of every agent other than model given by pairs
SettledWith(model, pairs) ==
    LET finals == council.stage[5].results
        decisions == [m \in DOMAIN council.stage[4].decisions |->
            IF m = model THEN council.stage[4].decisions[m]
            ELSE Num(pairs[m][1])]
        claims == [i \in 1..Len(finals) |->
            IF finals[i].model = model THEN finals[i]
            ELSE [finals[i] EXCEPT
                     !.llm_final_decision = Num(pairs[finals[i].model][2])]]
    IN stage6_calculate_final_payments(council.stage0.all_quotes,
           council.stage[3],
           [council.stage[4] EXCEPT !.decisions = decisions],
           [council.stage[5] EXCEPT !.results = claims])

\* C30: the settlement is per agent.  What an agent receives and what the
\* aggregator pays for it are the same in every settlement that gives the
\* agent the same D and F, whatever the D and F of the other agents; two
\* agents of one settlement with the same D and F get the same two scores;
\* and the settlement leaves the stored conversations as they were.
C30_PerAgent ==
    Settled =>
        /\ \A m \in OutputModels(5) :
              \A pairs \in [OutputModels(5) \ {m} -> SettlePairs] :
                  LET other == SettledWith(m, pairs).per_model_payments[m]
                  IN /\ other.llm_receives_mcc = PaymentOf(m).llm_receives_mcc
                     /\ other.chairman_pays_mcc = PaymentOf(m).chairman_pays_mcc
        /\ \A m, k \in OutputModels(5) :
              (/\ InternalDecision(m) = InternalDecision(k)
               /\ FinalClaim(m) = FinalClaim(k)) =>
                  /\ PaymentOf(m).llm_receives_mcc = PaymentOf(k).llm_receives_mcc
                  /\ PaymentOf(m).chairman_pays_mcc = PaymentOf(k).chairman_pays_mcc
        /\ messages = <<>> /\ status = "active" /\ current_stage = NoStage

\* a settlement of three agents of which two have different D and F
C30_Witness ==
    /\ Settled
    /\ Cardinality(OutputModels(5)) = 3
    /\ \E m, k \in OutputModels(5) :
          /\ InternalDecision(m) # InternalDecision(k)
          /\ FinalClaim(m) # FinalClaim(k)

\* ---- claims on the bid parser, under ParseSpec
Parsed == bid.pc = "parsed"

\* the text with its commas taken out
WithoutCommas(chars) == SelectSeq(chars, LAMBDA c : c # ",")

\* the positions of chars that belong to a word token or tokens
UnitWordAt(chars, j) ==
    /\ j + 4 <= Len(chars)
    /\ SubSeq(chars, j, j + 4) = <<"t", "o", "k", "e", "n">>
InUnitWord(chars, k) ==
    \E j \in 1..Len(chars) :
       /\ UnitWordAt(chars, j)
       /\ \/ k \in j..(j + 4)
          \/ k = j + 5 /\ k <= Len(chars) /\ chars[k] = "s"

\* the positions of the comma-less text that are left after the unit words
\* are taken out, in order
RECURSIVE KeptFrom(_, _)
KeptFrom(chars, k) ==
    IF k > Len(chars) THEN <<>>
    ELSE (IF InUnitWord(chars, k) THEN <<>> ELSE <<chars[k]>>)
         \o KeptFrom(chars, k + 1)
StrippedText(chars) == KeptFrom(WithoutCommas(chars), 1)

\* the first digit run of a text: from its first digit up to the next
\* character that is not a digit
FirstRun(chars) ==
    LET digits == {k \in 1..Len(chars) : IsDigit(chars[k])} IN
    IF digits = {} THEN <<>>
    ELSE LET first == CHOOSE k \in digits : \A l \in digits : k <= l
             last  == CHOOSE k \in first..Len(chars) :
                         /\ \A l \in first..k : IsDigit(chars[l])
                         /\ k = Len(chars) \/ ~IsDigit(chars[k + 1])
         IN  SubSeq(chars, first, last)

\* the decimal value of a digit run, or Huge when it is that large
RECURSIVE ValueOf(_)
ValueOf(run) ==
    IF run = <<>> THEN 0
    ELSE LET n == 10 * ValueOf(SubSeq(run, 1, Len(run) - 1))
                   + DigitValue(run[Len(run)])
         IN  IF n < Huge THEN n ELSE Huge

\* C31: the bid parser takes the first digit run of the reply, after its
\* commas and the words token and tokens are taken out, and returns that
\* value when it is in 50..16000, 500 when it is below 50, 8000 when it is
\* above 16000, and 1500 when the reply has no digit or is empty.
C31_BidParser ==
    Parsed =>
       LET run == FirstRun(StrippedText(bid.text)) IN
       /\ run = <<>> => bid.result = 1500
       /\ run # <<>> =>
            LET value == ValueOf(run) IN
            /\ (50 <= value /\ value <= 16000) => bid.result = value
            /\ value < 50 => bid.result = 500
            /\ value > 16000 => bid.result = 8000

\* a reply whose first number only appears once a unit word is taken out:
\* "49tokens50" gives 4950
C31_Witness ==
    /\ Parsed
    /\ bid.text = <<"4", "9", "t", "o", "k", "e", "n", "s", "5", "0">>
    /\ bid.result = 4950

\* ---- claims on error handling, under CouncilSpec
\* C32: whatever text the aggregator or an agent returns, the stages that
\* parse it (aggregation, self-evaluation, counter-decision and final
\* acceptance) return a value and do not raise.
C32_NeverRaises ==
    council # Unused =>
        \A n \in 2..5 : council.stage[n] # Raise

AggregationFailed ==
    /\ council # Unused
    /\ [stage |-> 2, model |-> council.stage0.chairman_model] \in council.failed

\* C33: when the aggregation call fails, the aggregation stage returns the
\* fixed error answer with an empty score map, the aggregator_initial score
\* of every agent is 0 in the later stages, and the stages 3 to 6 all return,
\* down to the settlement.
C33_AggregatorFailureNotFatal ==
    AggregationFailed =>
        /\ council.stage[2].aggregated_answer = ErrorAnswer
        /\ council.stage[2].chairman_mccs = EmptyDict
        /\ Ran(3) => \A i \in 1..Len(council.stage[3].results) :
                        council.stage[3].results[i].chairman_initial_mcc
                            \in {Num(0), Missing}
        /\ Ran(4) => \A m \in OutputModels(4) :
                        FinalPrompt(council.stage0.all_quotes, council.stage[2],
                                    council.stage[3], council.stage[4],
                                    m).chairman_mcc = Num(0)
        /\ \A n \in 3..6 : council.stage[n] # Raise

\* ---- claims on the calls in flight, under GatherSpec
StageCalled(n) == council.phase[n] # NotCalled[n]
InFlight(n) == {m \in GatherModels : council.phase[n][m] = "in_flight"}
Completed(n) == {m \in GatherModels : council.phase[n][m] = "done"}
Asked(n) == {Requests(n)[j] : j \in 1..Len(Requests(n))}
HasOutput(n) == IF n = 0 THEN council.stage0 # None ELSE council.stage[n] # None

\* every call of a stage is started before any of them has returned
AllDispatchedFirst ==
    \A n \in GatherStages :
       Completed(n) # {} => Asked(n) = InFlight(n) \cup Completed(n)

\* a stage has its output, and the next stage is called, only after each of
\* its calls has returned
JoinedBeforeOutput ==
    \A n \in GatherStages :
       (HasOutput(n) /\ council.outcome # "raised") =>
           /\ InFlight(n) = {}
           /\ Completed(n) = Asked(n)

NoOverlap ==
    \A n \in GatherStages : \A k \in GatherStages :
       (n < k /\ StageCalled(k)) => InFlight(n) = {}

\* the output is that of the stage function on the reply of each model,
\* whatever the order in which the calls completed
OutputByModel ==
    /\ council.stage0 # None =>
          council.stage0 = stage0_collect_quotes(GatherCandidates, council.reply[0])
    /\ council.stage[1] \notin {None, Raise} =>
          council.stage[1] = stage1_collect_responses(
                                council.stage0.selected_models,
                                {m \in Asked(1) : council.reply[1][m] # None})
    /\ council.stage[2] # None =>
          council.stage[2] = stage2_evaluate_mccs(
                                council.stage[1], council.stage0.chairman_model,
                                council.reply[2][council.stage0.chairman_model])

\* C34: in a stage every call is started before any has returned; the stage
\* has its output and the next stage starts only after every call of the
\* stage has returned a reply or a failure; no call of a later stage is
\* started while a call of an earlier one is in flight; and the output does
\* not depend on the order in which the calls complete.
C34_Barrier ==
    /\ AllDispatchedFirst
    /\ JoinedBeforeOutput
    /\ NoOverlap
    /\ OutputByModel

\* the three bids came back in the reverse of the order they were asked in,
\* one of them failed, and the answers of the panel are being awaited
C34_Witness ==
    /\ council.completed[0] = <<Requests(0)[3], Requests(0)[2], Requests(0)[1]>>
    /\ council.reply[0][Requests(0)[1]] = None
    /\ council.stage0 # None
    /\ Completed(1) # {} /\ InFlight(1) # {}

\* ---- claims on the stored run, under Spec
\* the payloads of the run in the store: those of the last assistant message
StoredPayloads ==
    IF LastIsAssistant(messages) THEN messages[Len(messages)].stage ELSE NoStages

\* C35: the stored status is active, processing, completed or error; while
\* it is processing with stage index n, the payload of every stage before n
\* is stored; and when it is completed, all seven payloads are stored and
\* the stage index is empty.
C35_StatusAndPayloads ==
    /\ status \in {"active", "processing", "completed", "error"}
    /\ status = "processing" =>
          /\ current_stage \in 0..6
          /\ \A s \in 0..6 : s < current_stage => StoredPayloads[s + 1] # None
    /\ status = "completed" =>
          /\ \A s \in 0..6 : StoredPayloads[s + 1] # None
          /\ current_stage = NoStage

\* the status is processing and the payload of stage 0 has just been stored
C35_Witness ==
    /\ status = "processing" /\ current_stage = 0
    /\ StoredPayloads[1] # None
    /\ \E i \in Invocations : inv[i].pc = "completed" /\ inv[i].n = 0

\* invocation i executes stage n in this step and yields its stage-complete
\* event
EmitsFresh(i, n) ==
    /\ inv[i].pc = "started" /\ inv[i].n = n
    /\ Len(inv'[i].events) = Len(inv[i].events) + 1
    /\ inv'[i].events[Len(inv'[i].events)].type = "stage_complete"

PersistedAtEmit ==
    \A i \in Invocations : \A n \in 0..6 :
        EmitsFresh(i, n) =>
            /\ LastIsAssistant(messages')
            /\ messages'[Len(messages')].stage[n + 1] # None
            /\ messages'[Len(messages')].stage[n + 1]
                   = inv'[i].events[Len(inv'[i].events)].data

\* the run that the request of invocation j found in the store
FoundRun(j) == inv[j].conversation[Len(inv[j].conversation)].stage

NotRecomputed ==
    \A j \in Invocations : \A n \in 0..6 :
        (/\ inv[j].pc # "idle"
         /\ Resuming(inv[j].conversation)
         /\ FoundRun(j)[n + 1] # None) => ~Called(j, n)

\* C36: when an invocation yields the stage-complete event of a stage it has
\* just executed, the payload of that stage is in the store; and a request
\* that finds the payload of stage n in the run it resumes does not call
\* stage n again.
C36_PersistBeforeEmit == [][PersistedAtEmit]_vars /\ [](NotRecomputed)

\* an invocation was interrupted after its stage-complete event of stage 0,
\* and a later request resumed the run and ended without calling stage 0
C36_Witness ==
    \E i, j \in Invocations :
        /\ inv[i].pc = "aborted"
        /\ inv[i].events[Len(inv[i].events)].type = "stage_complete"
        /\ Called(i, 0)
        /\ Done(j) /\ Resuming(inv[j].conversation)
        /\ FoundRun(j)[1] # None
        /\ inv[j].events[1].type = "stage_complete"
        /\ inv[j].calls = <<>>

\* invocation i takes a step of its generator
Acts(i) == inv[i].pc \notin {"idle", "done", "aborted"} /\ inv'[i] # inv[i]
Begins(i) == inv[i].pc = "accepted" /\ inv'[i].pc # "accepted"

\* what the request of invocation i found: a last assistant message with a
\* null payload
FoundIncomplete(i) ==
    LET found == inv[i].conversation
    IN /\ found # <<>>
       /\ found[Len(found)].role = "assistant"
       /\ \E s \in 1..7 : found[Len(found)].stage[s] = None

\* the query of the run it found: the content of the closest user message
\* before the last message
QueryOfFoundRun(i) ==
    LET found == inv[i].conversation
        j == CHOOSE j \in 1..(Len(found) - 1) :
                /\ found[j].role = "user"
                /\ \A h \in (j + 1)..(Len(found) - 1) : found[h].role # "user"
    IN found[j].content

ResumeAppendsNothing ==
    \A i \in Invocations :
        (Acts(i) /\ FoundIncomplete(i)) =>
            /\ Len(messages') = Len(messages)
            /\ \A m \in 1..Len(messages) :
                  /\ messages'[m].role = messages[m].role
                  /\ messages'[m].content = messages[m].content

NewRunAppends ==
    \A i \in Invocations :
        (Begins(i) /\ ~FoundIncomplete(i)) =>
            messages' = messages \o <<UserMessage(inv[i].content), NewAssistantMessage>>

OnlyNewRunAppends ==
    Len(messages') > Len(messages) =>
        \E i \in Invocations : Begins(i) /\ ~FoundIncomplete(i)

ResumesOriginalQuery ==
    \A i \in Invocations :
        inv[i].pc \notin {"idle", "accepted"} =>
            /\ inv[i].user_content =
                  IF FoundIncomplete(i) /\ \E j \in 1..(Len(inv[i].conversation) - 1) :
                                               inv[i].conversation[j].role = "user"
                  THEN QueryOfFoundRun(i)
                  ELSE inv[i].content
            /\ FoundIncomplete(i) =>
                  \A n \in 0..6 :
                      Called(i, n) =>
                          \E s \in 1..(n + 1) :
                              inv[i].conversation[Len(inv[i].conversation)].stage[s] = None

\* C37: a request that finds a last assistant message with a null payload
\* resumes that run whatever the stored status: it appends no message, works
\* on the query of that run and not on its own content, and calls no stage
\* before the first null payload.  A message is appended only by a request
\* that finds no such message, which appends its user message and a new
\* assistant message.
C37_ResumeOrNewRun ==
    /\ [][ResumeAppendsNothing /\ NewRunAppends /\ OnlyNewRunAppends]_vars
    /\ [](ResumesOriginalQuery)

\* a request with another content resumed a run that had ended in error and
\* stage 0 stored: nothing was appended and the original query was kept
C37_Witness ==
    \E i, j \in Invocations :
        /\ Done(i) /\ inv[i].exit_status = "error" /\ Called(i, 0)
        /\ Done(j) /\ FoundIncomplete(j)
        /\ inv[j].conversation[Len(inv[j].conversation)].stage[1] # None
        /\ inv[j].content # inv[j].user_content
        /\ inv[j].user_content = inv[i].content
        /\ Len(messages) = 2

\* ---- claims on the incentives of the settlement, under SettleSpec
\* what model receives
Payout(model) == PaymentOf(model).llm_receives_mcc
\* the sum of what the first n final claims receive
RECURSIVE ReceivesUpTo(_)
ReceivesUpTo(n) ==
    IF n = 0 THEN Num(0)
    ELSE Plus(ReceivesUpTo(n - 1), Payout(council.stage[5].results[n].model))

====
